---- MODULE Spec2Model ----
(***************************************************************************)
(* Local RPC transport of ginanjarn/pytools: the framing codec             *)
(* (src/editing_tools/server/rpc.py), the client transport                 *)
(* (src/api/transport.py) and the analysis server (src/server/app.py).     *)
(*                                                                         *)
(* A byte string is a sequence of one-symbol strings.  An ASCII character  *)
(* and its byte are the same symbol; the non-ASCII character "U+E9" is the *)
(* two bytes "xC3" "xA9" in UTF-8.                                         *)
(***************************************************************************)
EXTENDS Integers, Sequences, FiniteSets, TLC

VARIABLES
    cIn,        \* codec: the str handed to encode / carried as frame body
    cN,         \* codec: the length a hand-built frame header declares
    cWire,      \* codec: the bytes on the wire
    cOut,       \* codec: what decode returned or raised
    cStep,      \* codec: position of the round trip
    tpc,        \* client request(): where the call stands
    tPeer,      \* client request(): what the peer does with this connection
    tFrame,     \* client request(): every byte the peer writes on it
    tWire,      \* client request(): the peer's bytes not yet received
    tSock,      \* client: number of open client sockets
    tSent,      \* client request(): the bytes handed to sendall
    tBuffer,    \* client request(): b"".join(buffer)
    tMsg,       \* client request(): msg, the last chunk received
    tExit,      \* client request(): the path the call left by
    tOut,       \* client request(): what the caller got
    spc,        \* server: where serve_forever / request_handler stands
    sPeer,      \* server connection: what the client does with it
    sFrame,     \* server connection: every byte the client writes on it
    sWire,      \* server connection: the client's bytes not yet received
    sBuffer,    \* request_handler: b"".join(buffer)
    sMsg,       \* request_handler: msg, the last chunk received
    sTmsg,      \* request_handler: tmsg.message
    sResult,    \* request_handler: result_message
    sSent,      \* server connection: the bytes sendall wrote on it
    sMethod,    \* server connection: the method a handler ran for, or ""
    sAnswered,  \* server connection: the method whose response was sent
    sEnded,     \* server connection: "replied" or "dropped" once it is over
    sTerminate, \* Server._terminate
    sSettings,  \* Server.project_settings
    sShutdownHandled,   \* a shutdown request has been dispatched
    sExitCode,  \* <<exit code>> of the server process, Running until it ends
    dMessage,   \* dispatcher: the message str of the last handle_message call
    dSvc,       \* dispatcher: what the feature service did during that call
    dOut,       \* dispatcher: what that call returned or raised
    dBefore,    \* dispatcher: Server.project_settings when that call began
    dTerminate, \* dispatcher: Server._terminate
    dSettings,  \* dispatcher: Server.project_settings
    dWasInitialized,\* dispatcher: dInitialized when that call began
    dInitialized, \* an initialize was handled since the start or the last exit
    mBy,        \* message model: the constructor last called, "" before any
    mResult,    \* message model: its result argument
    mError,     \* message model: its error argument
    mBuilt,     \* message model: the response object it built
    gLock,      \* PROCESS_LOCK: the thread holding it, 0 when unlocked
    gpc,        \* gate: where each worker thread stands in wrapper
    gRet,       \* gate: how the last wrapper call of each thread ended
    gOverlap,   \* gate: another call was admitted when this one was invoked
    gOp,        \* gate: the operation each thread runs, a feature or shutdown
    gActive,    \* gate: SESSION.active
    pPort,      \* the listening port localhost 9005: the process bound to it, 0 when free
    pProc,      \* spawn: where each spawned server process stands
    pStatus,    \* spawn: <<exit code>> of each process, Running until it ends
    pFoundBound,\* spawn: the process found the port already bound
    pServed,    \* spawn: the process has served a connection
    pSpawner,   \* spawn: where run_server of each spawn attempt stands
    pSeen,      \* spawn: what run_server handed to its caller
    pExitCode,  \* spawn: exit_code, what server_proc.poll() gave run_server
    uServer,    \* plugin: whether a server process listens on port 9005
    uSettings,  \* plugin: project_settings of that server
    uActive,    \* SESSION.active
    upc,        \* plugin: where the running command or event handler stands
    uHandler,   \* plugin: the command or event handler that runs
    uStartOut,  \* plugin: how initialize ended in the most recent Session.start
    uStarts,    \* plugin: calls of SESSION.start in this handler call
    uSent,      \* plugin: feature requests sent in this handler call
    uResponse,  \* plugin: how the feature request of this handler call ended
    uNotInit,   \* plugin: the handler read the NOT_INITIALIZED code in the response
    uShutdown,  \* plugin: how client.shutdown() ended
    uCommand,   \* plugin: how PytoolsShutdownServerCommand.shutdown ended
    eImpl,      \* ResponseError.parse: the copy called, server/rpc.py or client/rpc.py
    eIn,        \* ResponseError.parse: its params argument
    eOut,       \* ResponseError.parse: the .error mapping of the object, or what it raised
    eStep,      \* ResponseError.parse: idle, called, parsed
    lFrame,     \* long frame: header and body lengths of the frame the client wrote
    lWire,      \* long frame: how many of its bytes recv has not returned yet
    lBuffer,    \* long frame: len(b"".join(buffer)) in request_handler
    lMsg,       \* long frame: len(msg) of the last chunk recv returned
    lpc,        \* long frame: where request_handler stands
    lClient,    \* long frame: the client waits for the reply, has it, or gave up and closed
    qData,      \* editing_tools server: the content handed to process
    qHandler,   \* editing_tools server: what the registered handler did
    qOut,       \* editing_tools server: what process returned or raised
    qWaitNext,  \* editing_tools server: Server.wait_next
    qLoop,      \* editing_tools server: position of main()
    vServer,    \* editing_tools client: whether a server listens on the port
    vCapability,\* editing_tools client: Client.capability
    vValid,     \* editing_tools client: Client.server_valid
    vCached,    \* editing_tools client: Client.cached_workspace
    vDelivered, \* editing_tools client: workspaces of the didChangeConfiguration requests delivered
    vServerThread,\* editing_tools client: Client.server_thread, 0 for None
    vSpawn,     \* editing_tools client: position of each server thread
    vpc         \* editing_tools client: position of each worker thread

codecVars == <<cIn, cN, cWire, cOut, cStep>>
clientVars == <<tpc, tPeer, tFrame, tWire, tSock, tSent, tBuffer, tMsg, tExit, tOut>>

serverVars == <<spc, sPeer, sFrame, sWire, sBuffer, sMsg, sTmsg, sResult, sSent,
                sMethod, sAnswered, sEnded, sTerminate, sSettings,
                sShutdownHandled, sExitCode>>
dispatchVars == <<dMessage, dSvc, dOut, dBefore, dTerminate, dSettings, dWasInitialized, dInitialized>>
messageVars == <<mBy, mResult, mError, mBuilt>>
gateVars == <<gLock, gpc, gRet, gOverlap, gOp, gActive>>
spawnVars == <<pPort, pProc, pStatus, pFoundBound, pServed, pSpawner, pSeen,
               pExitCode>>
pluginVars == <<uServer, uSettings, uActive, upc, uHandler, uStartOut, uStarts, uSent, uResponse, uNotInit, uShutdown, uCommand>>
parseVars == <<eImpl, eIn, eOut, eStep>>
longVars == <<lFrame, lWire, lBuffer, lMsg, lpc, lClient>>
processVars == <<qData, qHandler, qOut, qWaitNext, qLoop>>
hubVars == <<vServer, vCapability, vValid, vCached, vDelivered, vServerThread, vSpawn, vpc>>
otherThanCodec ==
    <<clientVars, serverVars, dispatchVars, messageVars, gateVars, spawnVars, pluginVars, parseVars, longVars, processVars, hubVars>>
otherThanClient ==
    <<codecVars, serverVars, dispatchVars, messageVars, gateVars, spawnVars, pluginVars, parseVars, longVars, processVars, hubVars>>
otherThanServer ==
    <<codecVars, clientVars, dispatchVars, messageVars, gateVars, spawnVars, pluginVars, parseVars, longVars, processVars, hubVars>>
otherThanDispatch ==
    <<codecVars, clientVars, serverVars, messageVars, gateVars, spawnVars, pluginVars, parseVars, longVars, processVars, hubVars>>
otherThanMessage ==
    <<codecVars, clientVars, serverVars, dispatchVars, gateVars, spawnVars, pluginVars, parseVars, longVars, processVars, hubVars>>
otherThanGate ==
    <<codecVars, clientVars, serverVars, dispatchVars, messageVars, spawnVars, pluginVars, parseVars, longVars, processVars, hubVars>>
otherThanSpawn ==
    <<codecVars, clientVars, serverVars, dispatchVars, messageVars, gateVars, pluginVars, parseVars, longVars, processVars, hubVars>>
otherThanPlugin ==
    <<codecVars, clientVars, serverVars, dispatchVars, messageVars, gateVars, spawnVars, parseVars, longVars, processVars, hubVars>>
otherThanParse ==
    <<codecVars, clientVars, serverVars, dispatchVars, messageVars, gateVars, spawnVars, pluginVars, longVars, processVars, hubVars>>
otherThanLong ==
    <<codecVars, clientVars, serverVars, dispatchVars, messageVars, gateVars, spawnVars, pluginVars, parseVars, processVars, hubVars>>
otherThanProcess ==
    <<codecVars, clientVars, serverVars, dispatchVars, messageVars, gateVars, spawnVars, pluginVars, parseVars, longVars, hubVars>>
otherThanHub ==
    <<codecVars, clientVars, serverVars, dispatchVars, messageVars, gateVars, spawnVars, pluginVars, parseVars, longVars, processVars>>

vars ==
    <<codecVars, clientVars, serverVars, dispatchVars, messageVars, gateVars, spawnVars, pluginVars, parseVars, longVars, processVars, hubVars>>

-----------------------------------------------------------------------------
(* Bounds of the model *)

MaxStrLen == 4      \* longest str given to the codec
MaxDeclared == 5    \* largest Content-Length of a hand-built frame

-----------------------------------------------------------------------------
(* Characters, bytes and the two text encodings *)

NonAscii == "U+E9"
Char == {"a", "\r", "\n", NonAscii}

StrUpTo(n) == UNION {[1..k -> Char] : k \in 0..n}

NoResult == [tag |-> "none"]

\* `x = e` of the code: e is evaluated once and its value handed to F
Bind(e, F(_)) == CHOOSE r \in {F(x) : x \in {e}} : TRUE

Return(v) == [tag |-> "return", value |-> v]
Raise(e) == [tag |-> "raise", exc |-> e]

\* str.encode("utf-8")
RECURSIVE Utf8Encode(_)
Utf8Encode(s) ==
    IF s = <<>> THEN <<>>
    ELSE (IF Head(s) = NonAscii THEN <<"xC3", "xA9">> ELSE <<Head(s)>>)
         \o Utf8Encode(Tail(s))

\* bytes.decode("utf-8"): the str, or UnicodeDecodeError on a byte sequence
\* that is no UTF-8 (a lone lead or continuation byte)
RECURSIVE Utf8Valid(_)
Utf8Valid(b) ==
    IF b = <<>> THEN TRUE
    ELSE IF Head(b) = "xC3"
         THEN Len(b) >= 2 /\ b[2] = "xA9" /\ Utf8Valid(SubSeq(b, 3, Len(b)))
         ELSE Head(b) # "xA9" /\ Utf8Valid(Tail(b))

RECURSIVE Utf8Chars(_)
Utf8Chars(b) ==
    IF b = <<>> THEN <<>>
    ELSE IF Head(b) = "xC3"
         THEN <<NonAscii>> \o Utf8Chars(SubSeq(b, 3, Len(b)))
         ELSE <<Head(b)>> \o Utf8Chars(Tail(b))

Utf8Decode(b) ==
    IF Utf8Valid(b) THEN Return(Utf8Chars(b)) ELSE Raise("UnicodeDecodeError")

\* bytes.decode("ascii") / str.encode("ascii")
IsAscii(b) == \A i \in 1..Len(b) : b[i] \notin {"xC3", "xA9", NonAscii}

AsciiDecode(b) == IF IsAscii(b) THEN Return(b) ELSE Raise("UnicodeDecodeError")

-----------------------------------------------------------------------------
(* Decimal numerals: "%s" % n, f"{n}" and int(...) *)

Digit == <<"0", "1", "2", "3", "4", "5", "6", "7", "8", "9">>
DigitSet == {Digit[i] : i \in 1..10}
DigitValue(d) == (CHOOSE i \in 1..10 : Digit[i] = d) - 1

RECURSIVE IntToStr(_)
IntToStr(n) ==
    IF n < 10 THEN <<Digit[n + 1]>>
    ELSE IntToStr(n \div 10) \o <<Digit[(n % 10) + 1]>>

RECURSIVE StrToInt(_)
StrToInt(d) ==
    IF Len(d) = 1 THEN DigitValue(d[1])
    ELSE 10 * StrToInt(SubSeq(d, 1, Len(d) - 1)) + DigitValue(d[Len(d)])

\* the longest run of digits a string starts with: what (\d*) captures
RECURSIVE DigitRun(_)
DigitRun(s) ==
    IF s # <<>> /\ Head(s) \in DigitSet THEN <<Head(s)>> \o DigitRun(Tail(s))
    ELSE <<>>

-----------------------------------------------------------------------------
(* Searching and splitting byte strings *)

Separator == <<"\r", "\n", "\r", "\n">>
ContentLengthKey ==
    <<"C", "o", "n", "t", "e", "n", "t", "-", "L", "e", "n", "g", "t", "h", ":", " ">>

StartsWith(s, p) == Len(p) <= Len(s) /\ SubSeq(s, 1, Len(p)) = p

\* index of the first occurrence of p in s, 0 when there is none
Find(s, p) ==
    LET hits == {i \in 1..(Len(s) - Len(p) + 1) : SubSeq(s, i, i + Len(p) - 1) = p}
    IN IF hits = {} THEN 0 ELSE CHOOSE i \in hits : \A j \in hits : i <= j

\* bytes.split(sep)
RECURSIVE Split(_, _)
Split(s, sep) ==
    LET i == Find(s, sep)
    IN IF i = 0 THEN <<s>>
       ELSE <<SubSeq(s, 1, i - 1)>> \o Split(SubSeq(s, i + Len(sep), Len(s)), sep)

-----------------------------------------------------------------------------
(* src/editing_tools/server/rpc.py: encode and decode *)

\* the header counts len(data), the characters of the str
encode(data) ==
    ContentLengthKey \o IntToStr(Len(data)) \o Separator \o Utf8Encode(data)

_get_head_and_body(data) ==
    LET dl == Split(data, Separator)
    IN IF Len(dl) # 2 THEN Raise("ContentInvalid")
       ELSE LET head == AsciiDecode(dl[1])
                body == Utf8Decode(dl[2])
            IN IF head.tag = "raise" THEN head
               ELSE IF body.tag = "raise" THEN body
               ELSE Return([head |-> head.value, body |-> body.value])

\* re.findall(r"Content-Length: (\d*)", header): the captured digits of each
\* non-overlapping match, left to right
RECURSIVE FindAllContentLength(_)
FindAllContentLength(header) ==
    LET i == Find(header, ContentLengthKey)
    IN IF i = 0 THEN <<>>
       ELSE LET rest == SubSeq(header, i + Len(ContentLengthKey), Len(header))
                d == DigitRun(rest)
            IN <<d>> \o FindAllContentLength(SubSeq(rest, Len(d) + 1, Len(rest)))

_get_contentlength(header) ==
    LET cl == FindAllContentLength(header)
    IN IF Len(cl) # 1 THEN Raise("ContentInvalid")
       ELSE IF cl[1] = <<>> THEN Raise("ValueError")
       ELSE Return(StrToInt(cl[1]))

decode(data) ==
    LET hb == _get_head_and_body(data)
    IN IF hb.tag = "raise" THEN hb
       ELSE LET clen == _get_contentlength(hb.value.head)
            IN IF clen.tag = "raise" THEN clen
               ELSE IF Len(hb.value.body) < clen.value THEN Raise("ContentIncomplete")
               ELSE IF Len(hb.value.body) > clen.value THEN Raise("ContentOverflow")
               ELSE Return(hb.value.body)

\* a frame as a peer may write it: a well-formed header declaring n, the
\* separator, the UTF-8 bytes of body
Frame(n, body) == ContentLengthKey \o IntToStr(n) \o Separator \o Utf8Encode(body)

\* a frame whose header has two Content-Length lines, declaring n then m
DupFrame(n, m, body) ==
    ContentLengthKey \o IntToStr(n) \o <<"\r", "\n">> \o Frame(m, body)

-----------------------------------------------------------------------------
(* JSON.  A JSON text is written with one symbol per lexeme group: "{", "}",
   one symbol for each `"key": value` member, and the scalar "0".  The framing
   code reads of a body only its length and where the separator occurs. *)

None == [j |-> "null"]
JInt(n) == [j |-> "int", n |-> n]
JStr(s) == [j |-> "str", s |-> s]
EmptyDict == <<>>

\* Python truthiness of the values the transport code tests with `if`
Truthy(v) == v \notin {None, EmptyDict, JInt(0), JStr("")}

\* ResponseError / RPCErrorMessage: {"code": code, "message": message}
ErrorObject(code, message) == [code |-> code, message |-> message]

\* the params of a feature request that carry every field a handler reads
DocumentParams ==
    [source |-> JStr("a"), row |-> JInt(0), column |-> JInt(0), path |-> JStr("/w")]

\* what a feature service hands back once converted (*_to_rpc)
FeatureResult == JStr("feature")

\* a JSON object (a dict once loaded), as opposed to null, a number, a string
IsMapping(v) == v = EmptyDict \/ "j" \notin DOMAIN v

MemberSymbol ==
    {"result:null", "result:1", "result:capability",
     "error:5001:AttributeError", "error:5001:TypeError",
     "error:5002:json", "error:5002:key", "error:5004", "error:5006",
     "method:ping", "method:shutdown", "method:exit", "method:initialize",
     "method:nosuch", "params:null", "params:{}", "params:workspace",
     "method:change_workspace", "method:document_completion",
     "method:document_hover", "method:document_formatting",
     "method:document_publish_diagnostic", "method:document_rename",
     "params:1", "params:document", "params:source", "params:path",
     "params:nodir",
     "result:{}", "result:document", "result:feature",
     "error:5001:KeyError", "error:5001:Exception",
     "error:5002:ValueError", "error:5002:OSError", "error:5005",
     "params:position", "error:5000",
     "id:0", "id:1", "id:2", "id:a", "id:", "id:null",
     "method:", "method:custom", "method:textDocument/hover"}

Member == [m \in MemberSymbol |->
    CASE m = "result:null" -> [key |-> "result", value |-> None]
      [] m = "result:1" -> [key |-> "result", value |-> JInt(1)]
      [] m = "result:capability" ->
            [key |-> "result",
             value |-> [document_completion |-> TRUE, document_hover |-> TRUE,
                        document_formatting |-> TRUE,
                        document_publish_diagnostic |-> TRUE]]
      [] m = "error:5001:AttributeError" ->
            [key |-> "error", value |-> ErrorObject(5001, "AttributeError")]
      [] m = "error:5001:TypeError" ->
            [key |-> "error", value |-> ErrorObject(5001, "TypeError")]
      [] m = "error:5002:json" ->
            [key |-> "error", value |-> ErrorObject(5002, "json decoding error")]
      [] m = "error:5002:key" ->
            [key |-> "error",
             value |-> ErrorObject(5002, "invalid RPC, unable get key")]
      [] m = "error:5004" ->
            [key |-> "error", value |-> ErrorObject(5004, "method not found")]
      [] m = "error:5006" ->
            [key |-> "error",
             value |-> ErrorObject(5006, "project not initialized")]
      [] m = "method:ping" -> [key |-> "method", value |-> JStr("ping")]
      [] m = "method:shutdown" -> [key |-> "method", value |-> JStr("shutdown")]
      [] m = "method:exit" -> [key |-> "method", value |-> JStr("exit")]
      [] m = "method:initialize" ->
            [key |-> "method", value |-> JStr("initialize")]
      [] m = "method:nosuch" -> [key |-> "method", value |-> JStr("nosuch")]
      [] m = "params:null" -> [key |-> "params", value |-> None]
      [] m = "params:{}" -> [key |-> "params", value |-> EmptyDict]
      [] m = "params:workspace" ->
            [key |-> "params", value |-> [workspace |-> [path |-> JStr("/w")]]]
      [] m = "method:change_workspace" ->
            [key |-> "method", value |-> JStr("change_workspace")]
      [] m = "method:document_completion" ->
            [key |-> "method", value |-> JStr("document_completion")]
      [] m = "method:document_hover" ->
            [key |-> "method", value |-> JStr("document_hover")]
      [] m = "method:document_formatting" ->
            [key |-> "method", value |-> JStr("document_formatting")]
      [] m = "method:document_publish_diagnostic" ->
            [key |-> "method", value |-> JStr("document_publish_diagnostic")]
      [] m = "method:document_rename" ->
            [key |-> "method", value |-> JStr("document_rename")]
      [] m = "params:1" -> [key |-> "params", value |-> JInt(1)]
      [] m = "params:document" -> [key |-> "params", value |-> DocumentParams]
      [] m = "params:source" ->
            [key |-> "params", value |-> [source |-> JStr("a")]]
      [] m = "params:path" -> [key |-> "params", value |-> [path |-> JStr("/w")]]
      [] m = "params:nodir" ->
            [key |-> "params", value |-> [path |-> JStr("/nodir")]]
      [] m = "result:{}" -> [key |-> "result", value |-> EmptyDict]
      [] m = "result:document" -> [key |-> "result", value |-> DocumentParams]
      [] m = "result:feature" -> [key |-> "result", value |-> FeatureResult]
      [] m = "error:5001:KeyError" ->
            [key |-> "error", value |-> ErrorObject(5001, "KeyError")]
      [] m = "error:5001:Exception" ->
            [key |-> "error", value |-> ErrorObject(5001, "Exception")]
      [] m = "error:5002:ValueError" ->
            [key |-> "error", value |-> ErrorObject(5002, "ValueError")]
      [] m = "error:5002:OSError" ->
            [key |-> "error", value |-> ErrorObject(5002, "OSError")]
      [] m = "error:5005" ->
            [key |-> "error", value |-> ErrorObject(5005, "ParamError")]
      [] m = "error:5000" ->
            [key |-> "error", value |-> ErrorObject(5000, "request timedout")]
      [] m = "id:0" -> [key |-> "id", value |-> JInt(0)]
      [] m = "id:1" -> [key |-> "id", value |-> JInt(1)]
      [] m = "id:2" -> [key |-> "id", value |-> JInt(2)]
      [] m = "id:a" -> [key |-> "id", value |-> JStr("a")]
      [] m = "id:" -> [key |-> "id", value |-> JStr("")]
      [] m = "id:null" -> [key |-> "id", value |-> None]
      [] m = "method:" -> [key |-> "method", value |-> JStr("")]
      [] m = "method:custom" -> [key |-> "method", value |-> JStr("custom")]
      [] m = "method:textDocument/hover" ->
            [key |-> "method", value |-> JStr("textDocument/hover")]
      [] m = "params:position" ->
            [key |-> "params",
             value |-> [source |-> JStr("a"), row |-> JInt(1), column |-> JInt(0)]]
]

\* json.loads: an object of members (the last of a repeated key wins), the
\* number 0, or JSONDecodeError
json_loads(text) ==
    IF text = <<"0">> THEN Return(JInt(0))
    ELSE IF /\ Len(text) >= 2
            /\ text[1] = "{"
            /\ text[Len(text)] = "}"
            /\ \A i \in 2..(Len(text) - 1) : text[i] \in DOMAIN Member
    THEN LET at(k) == CHOOSE i \in 2..(Len(text) - 1) :
                          /\ Member[text[i]].key = k
                          /\ \A j \in (i + 1)..(Len(text) - 1) : Member[text[j]].key # k
             keys == {Member[text[i]].key : i \in 2..(Len(text) - 1)}
         IN Return([k \in keys |-> Member[text[at(k)]].value])
    ELSE Raise("JSONDecodeError")

\* json.dumps of a dict: its members in insertion order, which for every dict
\* the transport builds is method, params / result / error
KeyOrder == <<"method", "params", "result", "error">>

RECURSIVE DumpMembers(_, _)
DumpMembers(d, i) ==
    IF i > Len(KeyOrder) THEN <<>>
    ELSE (IF KeyOrder[i] \in DOMAIN d
          THEN <<CHOOSE m \in DOMAIN Member :
                     Member[m] = [key |-> KeyOrder[i], value |-> d[KeyOrder[i]]]>>
          ELSE <<>>)
         \o DumpMembers(d, i + 1)

json_dumps(d) == <<"{">> \o DumpMembers(d, 1) \o <<"}">>

\* str.splitlines() / bytes.splitlines(): lines end at \r\n, \r or \n
RECURSIVE SplitLines(_)
SplitLines(s) ==
    IF s = <<>> THEN <<>>
    ELSE LET ends == {i \in 1..Len(s) : s[i] \in {"\r", "\n"}}
         IN IF ends = {} THEN <<s>>
            ELSE LET i == CHOOSE e \in ends : \A f \in ends : e <= f
                     skip == IF s[i] = "\r" /\ i < Len(s) /\ s[i + 1] = "\n"
                             THEN 2 ELSE 1
                 IN <<SubSeq(s, 1, i - 1)>>
                    \o SplitLines(SubSeq(s, i + skip, Len(s)))

\* re.compile(r"Content-Length: (\d+)").match(line): the captured digits, or
\* <<>> when the line does not start with the key and a digit
ContentLengthMatch(line) ==
    IF StartsWith(line, ContentLengthKey)
    THEN DigitRun(SubSeq(line, Len(ContentLengthKey) + 1, Len(line)))
    ELSE <<>>

-----------------------------------------------------------------------------
(* src/api/transport.py: RPCMessage and request() *)

BufSize == 2048
RequestTimeout == 5000

RPCErrorMessage(code, message) == ErrorObject(code, message)

\* RPCMessage.response(result=None, error=None)
RPCMessage_response(result, error) ==
    IF Truthy(error) THEN [error |-> error] ELSE [result |-> result]

\* RPCMessage.request(method, params=None)
RPCMessage_request(method, params) ==
    [method |-> JStr(method), params |-> IF params = None THEN EmptyDict ELSE params]

\* RPCMessage.to_bytes: the header counts the encoded bytes
RPCMessage_to_bytes(msg) ==
    LET content_encoded == Utf8Encode(json_dumps(msg))
    IN ContentLengthKey \o IntToStr(Len(content_encoded)) \o Separator
       \o content_encoded

\* RPCMessage.get_content_length: the first line that matches
get_content_length(header) ==
    Bind(SplitLines(header), LAMBDA lines :
        LET hits == {i \in 1..Len(lines) : ContentLengthMatch(lines[i]) # <<>>}
        IN IF hits = {} THEN Raise("ValueError")
           ELSE Return(StrToInt(ContentLengthMatch(
                    lines[CHOOSE i \in hits : \A j \in hits : i <= j]))))

\* message = json.loads(content.decode()); return cls(message).  The module
\* has no LOGGER, so the handler of a failed decode or parse ends in
\* NameError; cls(message) is dict(message), a TypeError on a number.
RPCMessage_from_content(content) ==
    Bind(Utf8Decode(content), LAMBDA text :
        IF text.tag = "raise" THEN Raise("NameError")
        ELSE Bind(json_loads(text.value), LAMBDA message :
            IF message.tag = "raise" THEN Raise("NameError")
            ELSE IF message.value = JInt(0) THEN Raise("TypeError")
            ELSE message))

\* RPCMessage.from_bytes.  The module defines ContentOverlow, so
\* `raise ContentOverflow(...)` ends in NameError.
RPCMessage_from_bytes(b) ==
    Bind(Split(b, Separator), LAMBDA parts :
        IF Len(parts) # 2 THEN Raise("ValueError")
        ELSE Bind(AsciiDecode(parts[1]), LAMBDA header :
            IF header.tag = "raise" THEN header
            ELSE Bind(get_content_length(header.value), LAMBDA content_length :
                IF content_length.tag = "raise" THEN content_length
                ELSE IF Len(parts[2]) < content_length.value
                     THEN Raise("ContentIncomplete")
                ELSE IF Len(parts[2]) > content_length.value
                     THEN Raise("NameError")
                ELSE RPCMessage_from_content(parts[2]))))

\* what the peer of one connection does: refuse it, break it while the
\* request is written, or take the request, write tFrame and then close,
\* stay silent, or reset
PeerKind == {"refuse", "broken", "close", "silent", "reset"}

WireFrame(n, body) == ContentLengthKey \o IntToStr(n) \o Separator \o body

OkBody == json_dumps([result |-> None])
ErrBody == json_dumps([error |-> ErrorObject(5006, "project not initialized")])

\* the bytes a peer may write: whole frames, a truncated and an over-long
\* body, bytes without separator or Content-Length, bodies that are no JSON
\* object, nothing
PeerStream == {
    WireFrame(Len(OkBody), OkBody),
    WireFrame(Len(ErrBody), ErrBody),
    WireFrame(Len(OkBody), SubSeq(OkBody, 1, Len(OkBody) - 1)),
    WireFrame(Len(OkBody), OkBody \o <<"}">>),
    WireFrame(2, <<"x", "x">>),
    WireFrame(1, <<"0">>),
    <<"x">> \o Separator \o OkBody,
    <<"x">>,
    <<>> }

\* the message argument: an RPCMessage, or bytes the caller encoded itself
ClientMessage == {
    [rpc |-> TRUE, value |-> RPCMessage_request("ping", None)],
    [rpc |-> TRUE, value |-> RPCMessage_request("shutdown", None)],
    [rpc |-> FALSE, value |-> <<"x">>] }

Min(a, b) == IF a < b THEN a ELSE b

\* leaving the `with socket.socket(...) as sock` block, by return or by
\* exception: the socket is closed and the caller gets out
LeaveRequest_NoClose(path, out) ==
    /\ tpc' = "done"
    /\ tExit' = path
    /\ tOut' = out
    /\ UNCHANGED tSock

LeaveRequest(path, out) ==
    /\ tpc' = "done"
    /\ tExit' = path
    /\ tOut' = out
    /\ tSock' = tSock - 1

ClientInit ==
    /\ tpc = "idle"
    /\ tPeer = "silent"
    /\ tFrame = <<>>
    /\ tWire = <<>>
    /\ tSock = 0
    /\ tSent = <<>>
    /\ tBuffer = <<>>
    /\ tMsg = <<>>
    /\ tExit = "none"
    /\ tOut = NoResult

\* request(message, timeout) is called: the socket is created
ClientCall ==
    /\ tpc \in {"idle", "done"}
    /\ tPeer' \in PeerKind
    /\ tFrame' \in PeerStream
    /\ tWire' = tFrame'
    /\ tSock' = tSock + 1
    /\ tSent' = <<>>
    /\ tBuffer' = <<>>
    /\ tMsg' = <<>>
    /\ tExit' = "none"
    /\ tOut' = NoResult
    /\ tpc' = "connect"
    /\ UNCHANGED otherThanClient

\* sock.connect(("127.0.0.1", 9005))
ClientConnect ==
    /\ tpc = "connect"
    /\ IF tPeer = "refuse"
       THEN LeaveRequest("error", Raise("ConnectionRefusedError"))
       ELSE tpc' = "send" /\ UNCHANGED <<tSock, tExit, tOut>>
    /\ UNCHANGED <<tPeer, tFrame, tWire, tSent, tBuffer, tMsg>>
    /\ UNCHANGED otherThanClient

\* message.to_bytes() if it is an RPCMessage; sock.sendall; settimeout;
\* buffer = []
ClientSend ==
    /\ tpc = "send"
    /\ IF tPeer = "broken"
       THEN LeaveRequest("error", Raise("BrokenPipeError")) /\ UNCHANGED tSent
       ELSE /\ \E message \in ClientMessage :
                tSent' = IF message.rpc THEN RPCMessage_to_bytes(message.value)
                         ELSE message.value
            /\ tpc' = "recv"
            /\ UNCHANGED <<tSock, tExit, tOut>>
    /\ tBuffer' = <<>>
    /\ UNCHANGED <<tPeer, tFrame, tWire, tMsg>>
    /\ UNCHANGED otherThanClient

\* msg = sock.recv(buf_size) returns bytes that have arrived, in whatever
\* pieces the network delivers them; buffer.append(msg)
ClientRecvData ==
    /\ tpc = "recv"
    /\ tWire # <<>>
    /\ \E k \in 1..Min(Len(tWire), BufSize) :
        /\ tMsg' = SubSeq(tWire, 1, k)
        /\ tWire' = SubSeq(tWire, k + 1, Len(tWire))
        /\ tBuffer' = tBuffer \o SubSeq(tWire, 1, k)
    /\ tpc' = "decode"
    /\ UNCHANGED <<tPeer, tFrame, tSock, tSent, tExit, tOut>>
    /\ UNCHANGED otherThanClient

\* msg = sock.recv(buf_size) on a connection the peer has closed returns b""
ClientRecvEof ==
    /\ tpc = "recv"
    /\ tWire = <<>>
    /\ tPeer = "close"
    /\ tMsg' = <<>>
    /\ tpc' = "decode"
    /\ UNCHANGED <<tPeer, tFrame, tWire, tSock, tSent, tBuffer, tExit, tOut>>
    /\ UNCHANGED otherThanClient

\* except socket.timeout: return RPCMessage.response(RPCErrorMessage(...)):
\* the error object is the first positional argument, which is `result`
ClientRecvTimeout ==
    /\ tpc = "recv"
    /\ tWire = <<>>
    /\ tPeer = "silent"
    /\ LeaveRequest("timeout",
            Return(RPCMessage_response(
                RPCErrorMessage(RequestTimeout, "request timedout"), None)))
    /\ UNCHANGED <<tPeer, tFrame, tWire, tSent, tBuffer, tMsg>>
    /\ UNCHANGED otherThanClient

\* sock.recv raises on a connection the peer has reset
ClientRecvReset ==
    /\ tpc = "recv"
    /\ tWire = <<>>
    /\ tPeer = "reset"
    /\ LeaveRequest("error", Raise("ConnectionResetError"))
    /\ UNCHANGED <<tPeer, tFrame, tWire, tSent, tBuffer, tMsg>>
    /\ UNCHANGED otherThanClient

\* response = RPCMessage.from_bytes(b"".join(buffer)); except
\* ContentIncomplete: continue; if len(msg) < buf_size: break; return response
ClientDecode ==
    /\ tpc = "decode"
    /\ LET response == RPCMessage_from_bytes(tBuffer)
       IN IF response = Raise("ContentIncomplete")
          THEN tpc' = "recv" /\ UNCHANGED <<tSock, tExit, tOut>>
          ELSE IF response.tag = "raise"
          THEN LeaveRequest("error", response)
          ELSE IF Len(tMsg) < BufSize
          THEN LeaveRequest("response", response)
          ELSE tpc' = "recv" /\ UNCHANGED <<tSock, tExit, tOut>>
    /\ UNCHANGED <<tPeer, tFrame, tWire, tSent, tBuffer, tMsg>>
    /\ UNCHANGED otherThanClient

ClientNext ==
    \/ ClientCall
    \/ ClientConnect
    \/ ClientSend
    \/ ClientRecvData
    \/ ClientRecvEof
    \/ ClientRecvTimeout
    \/ ClientRecvReset
    \/ ClientDecode

-----------------------------------------------------------------------------
(* src/server/app.py: TransportMessage, the handlers and Server *)

EXIT_SUCCESS == 0
INTERNAL_ERROR == 5001
INPUT_ERROR == 5002
METHOD_ERROR == 5004
PARAM_ERROR == 5005
NOT_INITIALIZED == 5006
RecvSize == 1024
Running == <<>>     \* the exit status of a process that has not exited

\* TransportMessage.to_bytes
TransportMessage_to_bytes(message) ==
    Bind(Utf8Encode(message), LAMBDA content_encoded :
        ContentLengthKey \o IntToStr(Len(content_encoded)) \o Separator
        \o content_encoded)

HeadContentLength_Last(head) ==
    Bind(SplitLines(head), LAMBDA lines :
        LET hits == {i \in 1..Len(lines) : ContentLengthMatch(lines[i]) # <<>>}
        IN IF hits = {} THEN Return(0)
           ELSE Return(StrToInt(ContentLengthMatch(
                    lines[CHOOSE i \in hits : \A j \in hits : i >= j]))))

\* the loop over head.splitlines(): the value of the first line that matches
\* Content-Length: (\d+), 0 when none does; line.decode("ascii") raises on a
\* line that is not ASCII
HeadContentLength(head) ==
    Bind(SplitLines(head), LAMBDA lines :
        LET stops == {i \in 1..Len(lines) :
                        ~IsAscii(lines[i]) \/ ContentLengthMatch(lines[i]) # <<>>}
        IN IF stops = {} THEN Return(0)
           ELSE Bind(lines[CHOOSE i \in stops : \A j \in stops : i <= j], LAMBDA line :
                IF ~IsAscii(line) THEN Raise("UnicodeDecodeError")
                ELSE Return(StrToInt(ContentLengthMatch(line)))))

\* the two length tests of from_bytes, the second written with `<` like the
\* first
BodyLengthCheck(body_len, _content_length) ==
    IF body_len # _content_length
    THEN IF body_len < _content_length THEN Raise("ContentIncomplete")
         ELSE IF body_len < _content_length THEN Raise("ContentOverlow")
         ELSE Return(body_len)
    ELSE Return(body_len)

\* TransportMessage.from_bytes: the message str, or what it raises
TransportMessage_from_bytes(buf) ==
    Bind(Split(buf, Separator), LAMBDA parts :
        IF Len(parts) # 2 THEN Raise("ValueError")
        ELSE Bind(HeadContentLength(parts[1]), LAMBDA _content_length :
            IF _content_length.tag = "raise" THEN _content_length
            ELSE IF _content_length.value = 0 THEN Raise("ValueError")
            ELSE Bind(BodyLengthCheck(Len(parts[2]), _content_length.value),
                      LAMBDA checked :
                IF checked.tag = "raise" THEN checked
                ELSE Utf8Decode(parts[2]))))

ResponseError(code, message) == ErrorObject(code, message)

ResponseParams_Both(result, error) == [result |-> result, error |-> error]

\* ResponseParams(result=None, error=None)
ResponseParams(result, error) ==
    IF Truthy(error) THEN [error |-> error] ELSE [result |-> result]

\* what a handler hands back: a ResponseParams, or some other object
AsResponse(d) == [cls |-> "ResponseParams", value |-> d]
AsOther(v) == [cls |-> "other", value |-> v]

\* result.to_str(): only ResponseParams has it
to_str(result) ==
    IF result.cls = "ResponseParams" THEN Return(json_dumps(result.value))
    ELSE Raise("AttributeError")

server_capability ==
    [document_completion |-> TRUE, document_hover |-> TRUE,
     document_formatting |-> TRUE, document_publish_diagnostic |-> TRUE]

\* the directories os.chdir succeeds on
Directory == {JStr("/w")}

\* A handler maps (params, the server's fields) to its outcome and the fields
\* it leaves: [out, terminate, settings]
Handled(out, terminate, settings) ==
    [out |-> out, terminate |-> terminate, settings |-> settings]

ping(params, terminate, settings) ==
    Handled(Return(AsOther(params)), terminate, settings)

shutdown_NoTerminate(params, terminate, settings) ==
    Handled(Return(AsResponse(ResponseParams(None, None))), terminate, settings)

shutdown(params, terminate, settings) ==
    Handled(Return(AsResponse(ResponseParams(None, None))), TRUE, settings)

initialize(params, terminate, settings) ==
    LET found == /\ "workspace" \in DOMAIN params
                 /\ "path" \in DOMAIN params.workspace
                 /\ params.workspace.path \in Directory
        workspace_path == IF found THEN params.workspace.path ELSE JStr("")
    IN Handled(Return(AsResponse(ResponseParams(server_capability, None))),
               terminate, [workspace |-> workspace_path])

exit_Terminate(params, terminate, settings) ==
    Handled(Return(AsResponse(ResponseParams(None, None))), TRUE, EmptyDict)

exit(params, terminate, settings) ==
    Handled(Return(AsResponse(ResponseParams(None, None))), terminate, EmptyDict)

\* what a call into jedi_service / black_service / pyflakes_service does: it
\* returns, raises the exception its caller handles (ValueError,
\* InvalidInput), or raises another Exception
ServiceOutcome == {"ok", "invalid", "crash"}

\* change_workspace: only KeyError of params["path"] becomes ParamError;
\* self.project_settings["workspace"] is read outside any try; a bare
\* `return` hands back None
change_workspace(params, terminate, settings) ==
    IF ~IsMapping(params)
    THEN Handled(Raise("TypeError"), terminate, settings)
    ELSE IF "path" \notin DOMAIN params
    THEN Handled(Raise("ParamError"), terminate, settings)
    ELSE IF "workspace" \notin DOMAIN settings
    THEN Handled(Raise("KeyError"), terminate, settings)
    ELSE IF params.path = settings.workspace
    THEN Handled(Return(AsOther(None)), terminate, settings)
    ELSE IF params.path \notin Directory
    THEN Handled(Return(AsResponse(
                    ResponseParams(None, ResponseError(INPUT_ERROR, "OSError")))),
                 terminate, settings)
    ELSE Handled(Return(AsResponse(ResponseParams(None, None))),
                 terminate, [workspace |-> params.path])

FeatureNotReady_ParamsFirst(params, settings, required) ==
    IF ~IsMapping(params) \/ ~(required \subseteq DOMAIN params)
    THEN Raise("ParamError")
    ELSE IF ~Truthy(settings) THEN Raise("InitializeError")
    ELSE NoResult

FeatureNotReady_NoParamCheck(params, settings, required) ==
    IF ~Truthy(settings) THEN Raise("InitializeError") ELSE NoResult

\* the three steps the feature handlers share: the project_settings test,
\* the reads of the required params, the service call
FeatureNotReady(params, settings, required) ==
    IF ~Truthy(settings) THEN Raise("InitializeError")
    ELSE IF ~IsMapping(params) \/ ~(required \subseteq DOMAIN params)
    THEN Raise("ParamError")
    ELSE NoResult

\* document_completion(params) with the outcome svc of jedi_svc.complete /
\* completion_to_rpc
document_completion(params, terminate, settings, svc) ==
    Bind(FeatureNotReady(params, settings, {"source", "row", "column"}),
         LAMBDA stop :
        IF stop # NoResult THEN Handled(stop, terminate, settings)
        ELSE IF svc = "invalid"
        THEN Handled(Return(AsResponse(ResponseParams(None,
                        ResponseError(INPUT_ERROR, "ValueError")))),
                     terminate, settings)
        ELSE IF svc = "crash" THEN Handled(Raise("Exception"), terminate, settings)
        ELSE Handled(Return(AsResponse(ResponseParams(FeatureResult, None))),
                     terminate, settings))

\* document_hover(params): as document_completion, with jedi_svc.hover
document_hover(params, terminate, settings, svc) ==
    Bind(FeatureNotReady(params, settings, {"source", "row", "column"}),
         LAMBDA stop :
        IF stop # NoResult THEN Handled(stop, terminate, settings)
        ELSE IF svc = "invalid"
        THEN Handled(Return(AsResponse(ResponseParams(None,
                        ResponseError(INPUT_ERROR, "ValueError")))),
                     terminate, settings)
        ELSE IF svc = "crash" THEN Handled(Raise("Exception"), terminate, settings)
        ELSE Handled(Return(AsResponse(ResponseParams(FeatureResult, None))),
                     terminate, settings))

\* document_formatting(params): reads source only; black_service.InvalidInput
\* becomes an INPUT_ERROR response
document_formatting(params, terminate, settings, svc) ==
    Bind(FeatureNotReady(params, settings, {"source"}), LAMBDA stop :
        IF stop # NoResult THEN Handled(stop, terminate, settings)
        ELSE IF svc = "invalid"
        THEN Handled(Return(AsResponse(ResponseParams(None,
                        ResponseError(INPUT_ERROR, "ValueError")))),
                     terminate, settings)
        ELSE IF svc = "crash" THEN Handled(Raise("Exception"), terminate, settings)
        ELSE Handled(Return(AsResponse(ResponseParams(FeatureResult, None))),
                     terminate, settings))

\* document_publish_diagnostic(params): params.get("source") needs no
\* source, params["path"] needs path; every exception of the service
\* becomes an INTERNAL_ERROR response
document_publish_diagnostic(params, terminate, settings, svc) ==
    Bind(FeatureNotReady(params, settings, {"path"}), LAMBDA stop :
        IF stop # NoResult THEN Handled(stop, terminate, settings)
        ELSE IF svc \in {"invalid", "crash"}
        THEN Handled(Return(AsResponse(ResponseParams(None,
                        ResponseError(INTERNAL_ERROR, "Exception")))),
                     terminate, settings)
        ELSE Handled(Return(AsResponse(ResponseParams(FeatureResult, None))),
                     terminate, settings))

Feature == {"document_completion", "document_hover", "document_formatting",
            "document_publish_diagnostic"}

service_map == {"ping", "shutdown", "initialize", "change_workspace", "exit"}
               \cup Feature

Service(method, params, terminate, settings, svc) ==
    CASE method = "ping"       -> ping(params, terminate, settings)
      [] method = "shutdown"   -> shutdown(params, terminate, settings)
      [] method = "initialize" -> initialize(params, terminate, settings)
      [] method = "change_workspace" ->
            change_workspace(params, terminate, settings)
      [] method = "exit"       -> exit(params, terminate, settings)
      [] method = "document_completion" ->
            document_completion(params, terminate, settings, svc)
      [] method = "document_hover" ->
            document_hover(params, terminate, settings, svc)
      [] method = "document_formatting" ->
            document_formatting(params, terminate, settings, svc)
      [] method = "document_publish_diagnostic" ->
            document_publish_diagnostic(params, terminate, settings, svc)

ErrorText(code, message) ==
    Return(json_dumps(ResponseParams(None, ResponseError(code, message))))

func_lookup_Default(method) ==
    Return(IF method \in service_map THEN method ELSE "ping")

\* func = self.service_map[method]: the handler, or KeyError
func_lookup(method) ==
    IF method \in service_map THEN Return(method) ELSE Raise("KeyError")

Excepted_Propagate(exc) == Raise(exc)

Excepted_AsTimeout(exc) == ErrorText(RequestTimeout, "request timedout")

\* the except clauses of handle_message: the code and text of the error
\* response for an exception raised under func(params) / result.to_str()
Excepted(exc) ==
    IF exc = "ParamError" THEN ErrorText(PARAM_ERROR, "ParamError")
    ELSE IF exc = "InitializeError"
    THEN ErrorText(NOT_INITIALIZED, "project not initialized")
    ELSE ErrorText(INTERNAL_ERROR, exc)

\* Server.handle_message: [out, terminate, settings], out the response str or
\* the exception that escapes
handle_message(message, terminate, settings, svc) ==
    Bind(json_loads(message), LAMBDA loaded :
        IF loaded.tag = "raise"
        THEN Handled(ErrorText(INPUT_ERROR, "json decoding error"),
                     terminate, settings)
        ELSE IF loaded.value = JInt(0)
        THEN Handled(Raise("TypeError"), terminate, settings)
        ELSE IF ~({"method", "params"} \subseteq DOMAIN loaded.value)
        THEN Handled(ErrorText(INPUT_ERROR, "invalid RPC, unable get key"),
                     terminate, settings)
        ELSE IF func_lookup(loaded.value.method.s).tag = "raise"
        THEN Handled(ErrorText(METHOD_ERROR, "method not found"),
                     terminate, settings)
        ELSE Bind(Service(func_lookup(loaded.value.method.s).value,
                          loaded.value.params,
                          terminate, settings, svc), LAMBDA done :
            IF done.out.tag = "raise"
            THEN Handled(Excepted(done.out.exc), done.terminate, done.settings)
            ELSE IF to_str(done.out.value).tag = "raise"
            THEN Handled(Excepted(to_str(done.out.value).exc),
                         done.terminate, done.settings)
            ELSE Handled(to_str(done.out.value), done.terminate, done.settings)))

\* a handler ran for this message: it parsed, carries method and params, and
\* the method is in service_map; "" otherwise
DispatchedMethod(message) ==
    Bind(json_loads(message), LAMBDA loaded :
        IF /\ loaded.tag = "return"
           /\ loaded.value # JInt(0)
           /\ {"method", "params"} \subseteq DOMAIN loaded.value
           /\ loaded.value.method.s \in service_map
        THEN loaded.value.method.s ELSE "")

\* what the client of one connection does after writing sFrame: close its
\* side, wait for the reply, or reset the connection
ClientKind == {"close", "wait", "reset"}

RequestBody(method, params) == <<"{", method, params, "}">>
TransportFrame(body) == WireFrame(Len(body), body)
PingBody == RequestBody("method:ping", "params:{}")

\* the bytes a client may write: requests, bodies that are no request, a
\* truncated and an over-long body, bytes without separator or
\* Content-Length, a declared length of 0, nothing
ServerStream == {
    TransportFrame(RequestBody("method:shutdown", "params:null")),
    TransportFrame(RequestBody("method:exit", "params:null")),
    TransportFrame(PingBody),
    TransportFrame(RequestBody("method:initialize", "params:workspace")),
    TransportFrame(RequestBody("method:nosuch", "params:null")),
    TransportFrame(RequestBody("method:document_hover", "params:{}")),
    TransportFrame(<<"{", "method:ping", "}">>),
    TransportFrame(<<"x", "x">>),
    TransportFrame(<<"0">>),
    WireFrame(Len(PingBody), SubSeq(PingBody, 1, Len(PingBody) - 1)),
    WireFrame(Len(PingBody), PingBody \o <<"}">>),
    WireFrame(0, <<>>),
    <<"x">> \o Separator \o PingBody,
    <<"x">>,
    <<>> }

ServerInit ==
    /\ spc = "accept"
    /\ sPeer = "wait"
    /\ sFrame = <<>>
    /\ sWire = <<>>
    /\ sBuffer = <<>>
    /\ sMsg = <<>>
    /\ sTmsg = <<>>
    /\ sResult = <<>>
    /\ sSent = <<>>
    /\ sMethod = ""
    /\ sAnswered = ""
    /\ sEnded = "none"
    /\ sTerminate = FALSE
    /\ sSettings = EmptyDict
    /\ sShutdownHandled = FALSE
    /\ sExitCode = Running

serverFields == <<sTerminate, sSettings, sShutdownHandled, sExitCode>>

\* an exception leaves request_handler: socketserver logs it
\* (handle_error), closes the connection and serves the next one
DropConnection ==
    /\ spc' = "accept"
    /\ sEnded' = "dropped"

\* serve_forever accepts a connection and calls request_handler:
\* buffer = []; result_message = b""
ServerAccept ==
    /\ spc = "accept"
    /\ sPeer' \in ClientKind
    /\ sFrame' \in ServerStream
    /\ sWire' = sFrame'
    /\ sBuffer' = <<>>
    /\ sMsg' = <<>>
    /\ sTmsg' = <<>>
    /\ sResult' = <<>>
    /\ sSent' = <<>>
    /\ sMethod' = ""
    /\ sAnswered' = ""
    /\ sEnded' = "none"
    /\ spc' = "recv"
    /\ UNCHANGED serverFields
    /\ UNCHANGED otherThanServer

\* msg = request.recv(1024); buffer.append(msg)
ServerRecvData ==
    /\ spc = "recv"
    /\ sWire # <<>>
    /\ \E k \in 1..Min(Len(sWire), RecvSize) :
        /\ sMsg' = SubSeq(sWire, 1, k)
        /\ sWire' = SubSeq(sWire, k + 1, Len(sWire))
        /\ sBuffer' = sBuffer \o SubSeq(sWire, 1, k)
    /\ spc' = "decode"
    /\ UNCHANGED <<sPeer, sFrame, sTmsg, sResult, sSent, sMethod, sAnswered, sEnded>>
    /\ UNCHANGED serverFields
    /\ UNCHANGED otherThanServer

\* msg = request.recv(1024) on a connection the client has closed is b""
ServerRecvEof ==
    /\ spc = "recv"
    /\ sWire = <<>>
    /\ sPeer = "close"
    /\ sMsg' = <<>>
    /\ spc' = "decode"
    /\ UNCHANGED <<sPeer, sFrame, sWire, sBuffer, sTmsg, sResult, sSent,
                   sMethod, sAnswered, sEnded>>
    /\ UNCHANGED serverFields
    /\ UNCHANGED otherThanServer

\* request.recv raises on a connection the client has reset
ServerRecvReset ==
    /\ spc = "recv"
    /\ sWire = <<>>
    /\ sPeer = "reset"
    /\ DropConnection
    /\ UNCHANGED <<sPeer, sFrame, sWire, sBuffer, sMsg, sTmsg, sResult, sSent,
                   sMethod, sAnswered>>
    /\ UNCHANGED serverFields
    /\ UNCHANGED otherThanServer

\* the client that waited for a reply gives up and closes (its own timeout)
ClientGivesUp ==
    /\ spc = "recv"
    /\ sWire = <<>>
    /\ sPeer = "wait"
    /\ sPeer' = "close"
    /\ UNCHANGED <<spc, sFrame, sWire, sBuffer, sMsg, sTmsg, sResult, sSent,
                   sMethod, sAnswered, sEnded>>
    /\ UNCHANGED serverFields
    /\ UNCHANGED otherThanServer

\* tmsg = TransportMessage.from_bytes(b"".join(buffer)); except
\* ContentIncomplete: continue; if len(msg) < 1024: break
ServerDecode ==
    /\ spc = "decode"
    /\ LET tmsg == TransportMessage_from_bytes(sBuffer)
       IN IF tmsg = Raise("ContentIncomplete")
          THEN spc' = "recv" /\ UNCHANGED <<sTmsg, sEnded>>
          ELSE IF tmsg.tag = "raise"
          THEN DropConnection /\ UNCHANGED sTmsg
          ELSE /\ sTmsg' = tmsg.value
               /\ spc' = IF Len(sMsg) < RecvSize THEN "handle" ELSE "recv"
               /\ UNCHANGED sEnded
    /\ UNCHANGED <<sPeer, sFrame, sWire, sBuffer, sMsg, sResult, sSent,
                   sMethod, sAnswered>>
    /\ UNCHANGED serverFields
    /\ UNCHANGED otherThanServer

\* result_message = TransportMessage(self.handle_message(tmsg.message))
\* .to_bytes(); except Exception as err: the INTERNAL_ERROR response
ServerHandle ==
    /\ spc = "handle"
    /\ \E svc \in ServiceOutcome :
       LET done == handle_message(sTmsg, sTerminate, sSettings, svc)
           text == IF done.out.tag = "raise"
                   THEN ErrorText(INTERNAL_ERROR, done.out.exc)
                   ELSE done.out
       IN /\ sResult' = TransportMessage_to_bytes(text.value)
          /\ sTerminate' = done.terminate
          /\ sSettings' = done.settings
    /\ sMethod' = DispatchedMethod(sTmsg)
    /\ sShutdownHandled' = (sShutdownHandled \/ DispatchedMethod(sTmsg) = "shutdown")
    /\ spc' = "send"
    /\ UNCHANGED <<sPeer, sFrame, sWire, sBuffer, sMsg, sTmsg, sSent, sAnswered,
                   sEnded, sExitCode>>
    /\ UNCHANGED otherThanServer

\* finally: request.sendall(result_message)
ServerSend ==
    /\ spc = "send"
    /\ sSent' = sResult
    /\ sAnswered' = sMethod
    /\ spc' = "finish"
    /\ UNCHANGED <<sPeer, sFrame, sWire, sBuffer, sMsg, sTmsg, sResult, sMethod,
                   sEnded>>
    /\ UNCHANGED serverFields
    /\ UNCHANGED otherThanServer

\* request.sendall may raise once the client is gone; the exception leaves
\* the finally block before `if self._terminate` is reached
ServerSendFails ==
    /\ spc = "send"
    /\ sPeer \in {"close", "reset"}
    /\ DropConnection
    /\ UNCHANGED <<sPeer, sFrame, sWire, sBuffer, sMsg, sTmsg, sResult, sSent,
                   sMethod, sAnswered>>
    /\ UNCHANGED serverFields
    /\ UNCHANGED otherThanServer

\* if self._terminate: sys.exit(EXIT_SUCCESS); otherwise request_handler
\* returns and serve_forever takes the next connection
ServerFinish ==
    /\ spc = "finish"
    /\ IF sTerminate
       THEN spc' = "exited" /\ sExitCode' = <<EXIT_SUCCESS>> /\ UNCHANGED sEnded
       ELSE spc' = "accept" /\ sEnded' = "replied" /\ UNCHANGED sExitCode
    /\ UNCHANGED <<sPeer, sFrame, sWire, sBuffer, sMsg, sTmsg, sResult, sSent,
                   sMethod, sAnswered, sTerminate, sSettings, sShutdownHandled>>
    /\ UNCHANGED otherThanServer

\* the steps request_handler takes by itself
ServerStep ==
    \/ ServerRecvData
    \/ ServerRecvEof
    \/ ServerRecvReset
    \/ ServerDecode
    \/ ServerHandle
    \/ ServerSend
    \/ ServerSendFails
    \/ ServerFinish

ServerNext == ServerAccept \/ ClientGivesUp \/ ServerStep

-----------------------------------------------------------------------------
(* The dispatcher by itself: handle_message called on one Server object with
   message after message *)

MethodMember ==
    {"method:ping", "method:shutdown", "method:exit", "method:initialize",
     "method:change_workspace", "method:document_completion",
     "method:document_hover", "method:document_formatting",
     "method:document_publish_diagnostic", "method:document_rename"}

ParamsMember ==
    {"params:null", "params:{}", "params:workspace",
     "params:document", "params:source", "params:path", "params:nodir"}

\* the message strs handed to handle_message: every method with every
\* params, objects lacking a key, a number, a text that is no JSON
DispatchMessage ==
    {RequestBody(method, params) : method \in MethodMember, params \in ParamsMember}
    \cup {<<"{", "method:ping", "}">>, <<"{", "params:null", "}">>, <<"{", "}">>,
          <<"0">>, <<"x">>}

DispatchInit ==
    /\ dMessage = <<>>
    /\ dSvc = "ok"
    /\ dOut = NoResult
    /\ dBefore = EmptyDict
    /\ dTerminate = FALSE
    /\ dSettings = EmptyDict
    /\ dWasInitialized = FALSE
    /\ dInitialized = FALSE

\* one call of Server.handle_message(message); the feature service acts only
\* under a feature handler
HandleMessage ==
    /\ \E message \in DispatchMessage :
       LET method == DispatchedMethod(message)
       IN \E svc \in (IF method \in Feature THEN ServiceOutcome ELSE {"ok"}) :
            /\ dMessage' = message
            /\ dSvc' = svc
            /\ \E done \in {handle_message(message, dTerminate, dSettings, svc)} :
                  /\ dOut' = done.out
                  /\ dTerminate' = done.terminate
                  /\ dSettings' = done.settings
            /\ dInitialized' = IF method = "initialize" THEN TRUE
                               ELSE IF method = "exit" THEN FALSE
                               ELSE dInitialized
    /\ dBefore' = dSettings
    /\ dWasInitialized' = dInitialized
    /\ UNCHANGED otherThanDispatch

DispatchNext == HandleMessage

-----------------------------------------------------------------------------
(* The message model by itself: the two response constructors called with
   every combination of arguments *)

ResultArg ==
    {None, JInt(0), JInt(1), JStr(""), JStr("a"), EmptyDict, server_capability,
     FeatureResult}

ErrorArg ==
    {None, EmptyDict, JInt(0), JStr(""), ErrorObject(0, ""),
     ErrorObject(RequestTimeout, "request timedout"),
     ErrorObject(INTERNAL_ERROR, "Exception")}

MessageInit ==
    /\ mBy = ""
    /\ mResult = None
    /\ mError = None
    /\ mBuilt = EmptyDict

\* ResponseParams(result=..., error=...) of src/server/app.py
BuildResponseParams ==
    /\ \E result \in ResultArg, error \in ErrorArg :
        /\ mResult' = result
        /\ mError' = error
        /\ mBuilt' = ResponseParams(result, error)
    /\ mBy' = "ResponseParams"
    /\ UNCHANGED otherThanMessage

\* RPCMessage.response(result, error) of src/api/transport.py
BuildRPCMessageResponse ==
    /\ \E result \in ResultArg, error \in ErrorArg :
        /\ mResult' = result
        /\ mError' = error
        /\ mBuilt' = RPCMessage_response(result, error)
    /\ mBy' = "RPCMessage.response"
    /\ UNCHANGED otherThanMessage

MessageNext == BuildResponseParams \/ BuildRPCMessageResponse

-----------------------------------------------------------------------------
(* src/pytools.py: pipe, the admission gate around the worker threads of
   completion, hover, formatting, diagnostics and shutdown *)

NumThreads == 3
Thread == 1..NumThreads

\* the calls that are past the locked() test and have not returned
Admitted == {t \in Thread : gpc[t] \in {"acquire", "body"}}

LockFree_Always(lock) == TRUE

\* Lock.acquire (the entry of `with PROCESS_LOCK`) goes on once nobody
\* holds the lock
LockFree(lock) == lock = 0

GateInit ==
    /\ gLock = 0
    /\ gpc = [t \in Thread |-> "idle"]
    /\ gRet = [t \in Thread |-> "none"]
    /\ gOverlap = [t \in Thread |-> FALSE]
    /\ gOp = [t \in Thread |-> "feature"]
    /\ gActive = FALSE

\* a worker thread starts and calls the wrapped operation
GateCall(t) ==
    /\ gpc[t] = "idle"
    /\ gpc' = [gpc EXCEPT ![t] = "check"]
    /\ gRet' = [gRet EXCEPT ![t] = "none"]
    /\ gOverlap' = [gOverlap EXCEPT ![t] = (Admitted # {})]
    /\ \E op \in {"feature", "shutdown"} : gOp' = [gOp EXCEPT ![t] = op]
    /\ UNCHANGED <<gLock, gActive>>
    /\ UNCHANGED otherThanGate

\* while PROCESS_LOCK.locked(): return None
GateCheck(t) ==
    /\ gpc[t] = "check"
    /\ IF gLock # 0
       THEN /\ gpc' = [gpc EXCEPT ![t] = "idle"]
            /\ gRet' = [gRet EXCEPT ![t] = "None"]
       ELSE /\ gpc' = [gpc EXCEPT ![t] = "acquire"]
            /\ UNCHANGED gRet
    /\ UNCHANGED <<gLock, gOverlap, gOp, gActive>>
    /\ UNCHANGED otherThanGate

\* with PROCESS_LOCK: (blocks until the lock is free), then set_status
GateAcquire(t) ==
    /\ gpc[t] = "acquire"
    /\ LockFree(gLock)
    /\ gLock' = t
    /\ gpc' = [gpc EXCEPT ![t] = "body"]
    /\ UNCHANGED <<gRet, gOverlap, gOp, gActive>>
    /\ UNCHANGED otherThanGate

\* what the wrapped operation does to SESSION.active: shutdown calls
\* SESSION.exit(), whose finally clears it; a feature calls SESSION.start
\* when it is clear, which sets it unless the start fails
BodyActive(op, active) ==
    IF op = "shutdown" THEN {FALSE} ELSE {active, TRUE}

\* return func(*args, **kwargs), or func raises; finally erase_status and
\* the exit of `with` release the lock
GateBody(t) ==
    /\ gpc[t] = "body"
    /\ \E how \in {"returned", "raised"} : gRet' = [gRet EXCEPT ![t] = how]
    /\ gActive' \in BodyActive(gOp[t], gActive)
    /\ gLock' = 0
    /\ gpc' = [gpc EXCEPT ![t] = "idle"]
    /\ UNCHANGED <<gOverlap, gOp>>
    /\ UNCHANGED otherThanGate

GateNext ==
    \E t \in Thread : GateCall(t) \/ GateCheck(t) \/ GateAcquire(t) \/ GateBody(t)

-----------------------------------------------------------------------------
(* Spawning the server: client.run_server (Popen, sleep, poll) on the
   plugin's side and main() of src/server/app.py in the spawned process *)

NumSpawns == 3
Spawn == 1..NumSpawns

EXIT_OS_ERROR == 123
EXIT_ADDRESS_IN_USE == 123

\* main: Server(("localhost", 9005)) binds the port, or TCPServer raises
\* OSError and main ends the process with EXIT_OS_ERROR
main_bind(port, i) ==
    IF port = 0 THEN [port |-> i, status |-> Running]
    ELSE [port |-> port, status |-> <<EXIT_OS_ERROR>>]

\* run_server after the sleep: exit_code = server_proc.poll()
run_server_poll(exit_code) ==
    IF exit_code = Running \/ exit_code = <<0>> THEN "returned"
    ELSE IF exit_code = <<EXIT_ADDRESS_IN_USE>> THEN "AddressInUse"
    ELSE "OSError"

SpawnInit ==
    /\ pPort = 0
    /\ pProc = [i \in Spawn |-> "none"]
    /\ pStatus = [i \in Spawn |-> Running]
    /\ pFoundBound = [i \in Spawn |-> FALSE]
    /\ pServed = [i \in Spawn |-> FALSE]
    /\ pSpawner = [i \in Spawn |-> "idle"]
    /\ pSeen = [i \in Spawn |-> ""]
    /\ pExitCode = [i \in Spawn |-> Running]

\* PytoolsRunServerCommand.run starts a thread; run_server: Popen, then sleep
SpawnServer(i) ==
    /\ pSpawner[i] \in {"idle", "done"}
    /\ pProc[i] \in {"none", "exited"}
    /\ pSpawner' = [pSpawner EXCEPT ![i] = "sleep"]
    /\ pSeen' = [pSeen EXCEPT ![i] = ""]
    /\ pExitCode' = [pExitCode EXCEPT ![i] = Running]
    /\ pProc' = [pProc EXCEPT ![i] = "starting"]
    /\ pStatus' = [pStatus EXCEPT ![i] = Running]
    /\ pFoundBound' = [pFoundBound EXCEPT ![i] = FALSE]
    /\ pServed' = [pServed EXCEPT ![i] = FALSE]
    /\ UNCHANGED pPort
    /\ UNCHANGED otherThanSpawn

\* the spawned process reaches main and constructs Server
ProcessBind(i) ==
    /\ pProc[i] = "starting"
    /\ LET bound == main_bind(pPort, i)
       IN /\ pPort' = bound.port
          /\ pStatus' = [pStatus EXCEPT ![i] = bound.status]
          /\ pProc' = [pProc EXCEPT ![i] =
                          IF bound.status = Running THEN "serving" ELSE "exited"]
    /\ pFoundBound' = [pFoundBound EXCEPT ![i] = (pPort # 0)]
    /\ UNCHANGED <<pServed, pSpawner, pSeen, pExitCode>>
    /\ UNCHANGED otherThanSpawn

\* server.serve_forever() handles a connection
ProcessServe(i) ==
    /\ pProc[i] = "serving"
    /\ pServed' = [pServed EXCEPT ![i] = TRUE]
    /\ UNCHANGED <<pPort, pProc, pStatus, pFoundBound, pSpawner, pSeen, pExitCode>>
    /\ UNCHANGED otherThanSpawn

\* sys.exit(EXIT_SUCCESS) after a shutdown request or on SIGTERM: the port
\* is free again
ProcessExit(i) ==
    /\ pProc[i] = "serving"
    /\ pProc' = [pProc EXCEPT ![i] = "exited"]
    /\ pStatus' = [pStatus EXCEPT ![i] = <<EXIT_SUCCESS>>]
    /\ pPort' = 0
    /\ UNCHANGED <<pFoundBound, pServed, pSpawner, pSeen, pExitCode>>
    /\ UNCHANGED otherThanSpawn

\* time.sleep(5) is over: poll once and return, or raise AddressInUse /
\* OSError
SpawnerPoll(i) ==
    /\ pSpawner[i] = "sleep"
    /\ pExitCode' = [pExitCode EXCEPT ![i] = pStatus[i]]
    /\ pSeen' = [pSeen EXCEPT ![i] = run_server_poll(pStatus[i])]
    /\ pSpawner' = [pSpawner EXCEPT ![i] = "done"]
    /\ UNCHANGED <<pPort, pProc, pStatus, pFoundBound, pServed>>
    /\ UNCHANGED otherThanSpawn

SpawnNext ==
    \E i \in Spawn :
        \/ SpawnServer(i)
        \/ ProcessBind(i)
        \/ ProcessServe(i)
        \/ ProcessExit(i)
        \/ SpawnerPoll(i)

-----------------------------------------------------------------------------
(* The plugin: SESSION (client.Session), the remote calls of
   src/api/client.py, the feature handlers and the shutdown command of
   src/pytools.py.  One handler runs at a time (each is under @pipe). *)

\* RPCMessage.response(RPCErrorMessage(code=5000, message="request timedout"))
TimeoutResponse ==
    RPCMessage_response(RPCErrorMessage(RequestTimeout, "request timedout"), None)

\* what the other end of one connection does: nothing listens, the
\* connection is reset, no reply comes before the timeout, the server
\* handles the message and its reply arrives whole
PluginPeer(server) ==
    IF server = "down" THEN {"refuse"} ELSE {"reset", "silent", "answer"}

Requested(out, settings, terminate) ==
    [out |-> out, settings |-> settings, terminate |-> terminate]

\* transport.request(message) against Server.request_handler: what the
\* caller gets, and the project_settings and _terminate of the server
request(message, peer, settings, svc) ==
    IF peer = "refuse"
    THEN Requested(Raise("ConnectionRefusedError"), settings, FALSE)
    ELSE IF peer = "reset"
    THEN Requested(Raise("ConnectionResetError"), settings, FALSE)
    ELSE IF peer = "silent"
    THEN Requested(Return(TimeoutResponse), settings, FALSE)
    ELSE Bind(handle_message(json_dumps(message), FALSE, settings, svc),
              LAMBDA done :
            Requested(RPCMessage_from_content(Utf8Encode(done.out.value)),
                      done.settings, done.terminate))

\* client.shutdown(): the request, nothing around it
client_shutdown(peer, settings) ==
    Bind(request(RPCMessage_request("shutdown", None), peer, settings, "ok"),
         LAMBDA r :
            Requested(IF r.out.tag = "raise" THEN r.out ELSE Return(None),
                      r.settings, r.terminate))

\* client.initialize(workspace_path): returns the response
client_initialize(workspace_path, peer, settings) ==
    request(RPCMessage_request("initialize",
                               [workspace |-> [path |-> workspace_path]]),
            peer, settings, "ok")

\* client.exit()
client_exit(peer, settings) ==
    Bind(request(RPCMessage_request("exit", None), peer, settings, "ok"),
         LAMBDA r :
            Requested(IF r.out.tag = "raise" THEN r.out ELSE Return(None),
                      r.settings, r.terminate))

\* client.document_completion(source, row, column)
client_document_completion(peer, settings, svc) ==
    request(RPCMessage_request("document_completion",
                [source |-> JStr("a"), row |-> JInt(1), column |-> JInt(0)]),
            peer, settings, svc)

\* client.document_formatting(source)
client_document_formatting(peer, settings, svc) ==
    request(RPCMessage_request("document_formatting", [source |-> JStr("a")]),
            peer, settings, svc)

\* Session.start: active becomes True unless initialize raised
Session_start(active, workspace_path, peer, settings) ==
    Bind(client_initialize(workspace_path, peer, settings), LAMBDA r :
        [active |-> IF r.out.tag = "raise" THEN active ELSE TRUE,
         out |-> r.out, settings |-> r.settings])

\* Session.exit: whatever exit() does, active becomes False
Session_exit(active, peer, settings) ==
    Bind(client_exit(peer, settings), LAMBDA r :
        [active |-> FALSE, out |-> Return(None), settings |-> r.settings])

ShutdownExcept_Propagate(out) == out

\* PytoolsShutdownServerCommand.shutdown: `except Exception as err` around
\* SESSION.exit() and client.shutdown(); the method returns None
ShutdownExcept(out) == IF out.tag = "raise" THEN Return(None) ELSE out

\* the handlers that send a feature request
FeatureHandler == {"format_document", "document_completion"}

PluginInit ==
    /\ uServer = "down"
    /\ uSettings = EmptyDict
    /\ uActive = FALSE
    /\ upc = "idle"
    /\ uHandler = ""
    /\ uStartOut = NoResult
    /\ uStarts = 0
    /\ uSent = 0
    /\ uResponse = NoResult
    /\ uNotInit = FALSE
    /\ uShutdown = NoResult
    /\ uCommand = NoResult

\* the server process started by pytools_run_server listens, with no
\* project initialized
ServerStarts ==
    /\ uServer = "down"
    /\ uServer' = "up"
    /\ uSettings' = EmptyDict
    /\ UNCHANGED <<uActive, upc, uHandler, uStartOut, uStarts, uSent,
                   uResponse, uNotInit, uShutdown, uCommand>>
    /\ UNCHANGED otherThanPlugin

\* an editor event or command starts a handler thread
HandlerCall ==
    /\ upc \in {"idle", "done"}
    /\ \E h \in FeatureHandler \cup {"shutdown"} :
        /\ uHandler' = h
        /\ upc' = IF h = "shutdown" THEN "exit" ELSE "start"
    /\ uStarts' = 0
    /\ uSent' = 0
    /\ uResponse' = NoResult
    /\ uNotInit' = FALSE
    /\ uShutdown' = NoResult
    /\ uCommand' = NoResult
    /\ UNCHANGED <<uServer, uSettings, uActive, uStartOut>>
    /\ UNCHANGED otherThanPlugin

\* SESSION.start(path) as a step of the running handler
SessionStart ==
    \E peer \in PluginPeer(uServer) :
    \E started \in {Session_start(uActive, JStr("/w"), peer, uSettings)} :
        /\ uActive' = started.active
        /\ uSettings' = started.settings
        /\ uStartOut' = started.out
        /\ uStarts' = uStarts + 1

\* if not SESSION.active: SESSION.start(path)
HandlerStart ==
    /\ upc = "start"
    /\ IF uActive THEN UNCHANGED <<uActive, uSettings, uStartOut, uStarts>>
       ELSE SessionStart
    /\ upc' = "request"
    /\ UNCHANGED <<uServer, uHandler, uSent, uResponse, uNotInit, uShutdown,
                   uCommand>>
    /\ UNCHANGED otherThanPlugin

\* response = client.document_formatting(source) /
\* client.document_completion(source, row, col), and the except clauses
HandlerRequest ==
    /\ upc = "request"
    /\ \E peer \in PluginPeer(uServer), svc \in ServiceOutcome :
       \E r \in {IF uHandler = "format_document"
                 THEN client_document_formatting(peer, uSettings, svc)
                 ELSE client_document_completion(peer, uSettings, svc)} :
            /\ uResponse' = r.out
            /\ uSettings' = r.settings
            /\ upc' = IF r.out.tag = "raise" THEN "done" ELSE "else"
    /\ uSent' = uSent + 1
    /\ UNCHANGED <<uServer, uActive, uHandler, uStartOut, uStarts, uNotInit,
                   uShutdown, uCommand>>
    /\ UNCHANGED otherThanPlugin

\* the else clause: the result is applied or shown; on the NOT_INITIALIZED
\* code SESSION.start(path), and the handler returns
HandlerElse ==
    /\ upc = "else"
    /\ IF /\ "error" \in DOMAIN uResponse.value
          /\ uResponse.value.error.code = NOT_INITIALIZED
       THEN /\ uNotInit' = TRUE
            /\ SessionStart
       ELSE UNCHANGED <<uNotInit, uActive, uSettings, uStartOut, uStarts>>
    /\ upc' = "done"
    /\ UNCHANGED <<uServer, uHandler, uSent, uResponse, uShutdown, uCommand>>
    /\ UNCHANGED otherThanPlugin

\* PytoolsShutdownServerCommand.shutdown: SESSION.exit()
ShutdownSessionExit ==
    /\ upc = "exit"
    /\ \E peer \in PluginPeer(uServer) :
       \E left \in {Session_exit(uActive, peer, uSettings)} :
            /\ uActive' = left.active
            /\ uSettings' = left.settings
    /\ upc' = "shutdown"
    /\ UNCHANGED <<uServer, uHandler, uStartOut, uStarts, uSent, uResponse,
                   uNotInit, uShutdown, uCommand>>
    /\ UNCHANGED otherThanPlugin

\* PytoolsShutdownServerCommand.shutdown: client.shutdown() and the except
\* clause; a server that handled the request exits
ShutdownRequest ==
    /\ upc = "shutdown"
    /\ \E peer \in PluginPeer(uServer) :
       \E r \in {client_shutdown(peer, uSettings)} :
            /\ uShutdown' = r.out
            /\ uCommand' = ShutdownExcept(r.out)
            /\ uServer' = IF r.terminate THEN "down" ELSE uServer
            /\ uSettings' = r.settings
    /\ upc' = "done"
    /\ UNCHANGED <<uActive, uHandler, uStartOut, uStarts, uSent, uResponse,
                   uNotInit>>
    /\ UNCHANGED otherThanPlugin

PluginNext ==
    \/ ServerStarts
    \/ HandlerCall
    \/ HandlerStart
    \/ HandlerRequest
    \/ HandlerElse
    \/ ShutdownSessionExit
    \/ ShutdownRequest

-----------------------------------------------------------------------------
(* ResponseError of src/editing_tools/server/rpc.py and of its copy
   src/editing_tools/client/rpc.py.  A ResponseError object is modelled by
   its _error mapping. *)

\* dict.update(arg): a mapping is merged in, a str is read as a sequence of
\* key/value pairs (only the empty str is one), another scalar is no iterable
dict_update(d, arg) ==
    IF IsMapping(arg) THEN Return(arg @@ d)
    ELSE IF arg = JStr("") THEN Return(d)
    ELSE IF arg.j = "str" THEN Raise("ValueError")
    ELSE Raise("TypeError")

\* params once code and message are popped
Popped(params) == [k \in (DOMAIN params) \ {"code", "message"} |-> params[k]]

\* server/rpc.py: ResponseError.__init__(self, code, message="", **kwargs)
ResponseError_init(code, message, kwargs) ==
    dict_update([code |-> code, message |-> message], kwargs)

\* server/rpc.py: ResponseError.parse: cls(code, message=message, params=params)
ResponseError_parse(params) ==
    IF ~IsMapping(params) THEN Raise("ParseError")
    ELSE IF ~({"code", "message"} \subseteq DOMAIN params) THEN Raise("KeyError")
    ELSE ResponseError_init(params.code, params.message,
                            [params |-> Popped(params)])

\* client/rpc.py: ResponseError.__init__(self, code, *args, message="",
\* **kwargs): every positional argument after code is handed to update
RECURSIVE UpdateAll(_, _)
UpdateAll(d, args) ==
    IF args = <<>> THEN Return(d)
    ELSE Bind(dict_update(d, Head(args)), LAMBDA updated :
            IF updated.tag = "raise" THEN updated
            ELSE UpdateAll(updated.value, Tail(args)))

client_ResponseError_init(code, args, message, kwargs) ==
    Bind(UpdateAll([code |-> code, message |-> message], args), LAMBDA updated :
        IF updated.tag = "raise" THEN updated
        ELSE dict_update(updated.value, kwargs))

\* client/rpc.py: ResponseError.parse: cls(code, message, params)
client_ResponseError_parse(params) ==
    IF ~IsMapping(params) THEN Raise("ParseError")
    ELSE IF ~({"code", "message"} \subseteq DOMAIN params) THEN Raise("KeyError")
    ELSE client_ResponseError_init(params.code,
                                   <<params.message, Popped(params)>>,
                                   JStr(""), EmptyDict)

\* the error mappings handed to parse: a code, a message, and extra fields
\* under up to three keys; also mappings without message, and a list
ExtraKey == {"cocok", "data", "params"}
ErrorMapping ==
    UNION {[{"code", "message"} \cup extra ->
                {JInt(12), JStr(""), JStr("error message")}] :
           extra \in SUBSET ExtraKey}
ParseInput ==
    {e \in ErrorMapping : e.code = JInt(12) /\ e.message # JInt(12)}
    \cup {[code |-> JInt(12)], None}

ParseInit ==
    /\ eImpl = "server"
    /\ eIn = None
    /\ eOut = NoResult
    /\ eStep = "idle"

\* a caller holds an error mapping
ParseCall ==
    /\ eStep \in {"idle", "parsed"}
    /\ eImpl' \in {"server", "client"}
    /\ eIn' \in ParseInput
    /\ eOut' = NoResult
    /\ eStep' = "called"
    /\ UNCHANGED otherThanParse

\* ResponseError.parse(eIn)
Parse ==
    /\ eStep = "called"
    /\ eOut' = IF eImpl = "server" THEN ResponseError_parse(eIn)
               ELSE client_ResponseError_parse(eIn)
    /\ eStep' = "parsed"
    /\ UNCHANGED <<eImpl, eIn>>
    /\ UNCHANGED otherThanParse

ParseNext == ParseCall \/ Parse

-----------------------------------------------------------------------------
(* The receive loop of Server.request_handler on frames as long as its
   recv size, against transport.request, which writes the whole frame and
   then waits for the reply until its timeout.  The frames are well formed
   (Content-Length header, separator, ASCII body of the declared length), so
   from_bytes depends only on how many of their bytes are in the buffer:
   byte strings are kept by their lengths here. *)

\* the frame that declares n and carries a body of n bytes: the lengths of
\* its header and body
LongFrame(n) ==
    [head |-> Len(ContentLengthKey) + Len(IntToStr(n)), declared |-> n,
     body |-> n]

FrameLen(frame) == frame.head + Len(Separator) + frame.body

\* the body length that makes a frame of exactly one recv size
FullBody ==
    CHOOSE n \in 1..RecvSize : FrameLen(LongFrame(n)) = RecvSize

\* the bodies written: frames around one and two recv sizes
LongBodySize ==
    {FullBody - 1, FullBody, FullBody + 1, FullBody + RecvSize - 1,
     FullBody + RecvSize, FullBody + RecvSize + 1}

\* TransportMessage.from_bytes of the first `buffered` bytes of the frame:
\* no separator yet is ValueError, then the two length tests
LongFromBytes(frame, buffered) ==
    IF buffered < frame.head + Len(Separator) THEN Raise("ValueError")
    ELSE IF frame.declared = 0 THEN Raise("ValueError")
    ELSE BodyLengthCheck(buffered - frame.head - Len(Separator), frame.declared)

\* what request.recv(1024) may return of `avail` bytes that have arrived:
\* all of them up to 1024, or a shorter piece
LongChunk(avail) ==
    {k \in {RecvSize, RecvSize - 1, RecvSize \div 2, avail} :
        k >= 1 /\ k <= avail /\ k <= RecvSize}

LongInit ==
    /\ lFrame = LongFrame(0)
    /\ lWire = 0
    /\ lBuffer = 0
    /\ lMsg = 0
    /\ lpc = "idle"
    /\ lClient = "none"

\* request(message): sock.sendall(message); the server accepts
LongSend ==
    /\ lpc \in {"idle", "returned", "raised"}
    /\ \E n \in LongBodySize : lFrame' = LongFrame(n)
    /\ lWire' = FrameLen(lFrame')
    /\ lBuffer' = 0
    /\ lMsg' = 0
    /\ lpc' = "recv"
    /\ lClient' = "waiting"
    /\ UNCHANGED otherThanLong

\* msg = request.recv(1024); buffer.append(msg)
LongRecvData ==
    /\ lpc = "recv"
    /\ lWire > 0
    /\ \E k \in LongChunk(lWire) :
        /\ lMsg' = k
        /\ lWire' = lWire - k
        /\ lBuffer' = lBuffer + k
    /\ lpc' = "decode"
    /\ UNCHANGED <<lFrame, lClient>>
    /\ UNCHANGED otherThanLong

\* recv on a connection the client has closed returns b""
LongRecvEof ==
    /\ lpc = "recv"
    /\ lWire = 0
    /\ lClient = "gone"
    /\ lMsg' = 0
    /\ lpc' = "decode"
    /\ UNCHANGED <<lFrame, lWire, lBuffer, lClient>>
    /\ UNCHANGED otherThanLong

\* tmsg = TransportMessage.from_bytes(b"".join(buffer)); except
\* ContentIncomplete: continue; if len(msg) < 1024: break
LongDecode ==
    /\ lpc = "decode"
    /\ \E tmsg \in {LongFromBytes(lFrame, lBuffer)} :
        lpc' = IF tmsg = Raise("ContentIncomplete") THEN "recv"
               ELSE IF tmsg.tag = "raise" THEN "raised"
               ELSE IF lMsg < RecvSize THEN "handle"
               ELSE "recv"
    /\ UNCHANGED <<lFrame, lWire, lBuffer, lMsg, lClient>>
    /\ UNCHANGED otherThanLong

\* handle_message and request.sendall(result_message): a client still
\* waiting gets the reply
LongReply ==
    /\ lpc = "handle"
    /\ lpc' = "returned"
    /\ lClient' = IF lClient = "waiting" THEN "replied" ELSE lClient
    /\ UNCHANGED <<lFrame, lWire, lBuffer, lMsg>>
    /\ UNCHANGED otherThanLong

\* except socket.timeout of request(): it returns the timeout response and
\* the socket is closed
LongClientTimeout ==
    /\ lClient = "waiting"
    /\ lWire = 0
    /\ lpc \in {"recv", "decode", "handle", "raised"}
    /\ lClient' = "gone"
    /\ UNCHANGED <<lFrame, lWire, lBuffer, lMsg, lpc>>
    /\ UNCHANGED otherThanLong

LongNext ==
    \/ LongSend
    \/ LongRecvData
    \/ LongRecvEof
    \/ LongDecode
    \/ LongReply
    \/ LongClientTimeout

-----------------------------------------------------------------------------
(* src/editing_tools/server: rpc.RequestMessage, rpc.ResponseMessage and
   Server.process, run_command, listen, loop *)

ET_PARSE_ERROR == -32700
ET_INVALID_REQUEST == -32600
ET_METHOD_NOT_FOUND == -32601
ET_INVALID_PARAMS == -32602
ET_INTERNAL_ERROR == -32603

\* Message.__init__: {"jsonrpc": "2.0"} updated with message unless it is
\* None; dict.update of a number raises TypeError
Message_init(message) ==
    IF message = None THEN Return([jsonrpc |-> JStr("2.0")])
    ELSE dict_update([jsonrpc |-> JStr("2.0")], message)

\* RequestMessage.parse: json.loads(src), JSONDecodeError becomes ParseError,
\* then cls(message) outside the try
RequestMessage_parse(src) ==
    IF src = <<"null">> THEN Message_init(None)
    ELSE Bind(json_loads(src), LAMBDA message :
        IF message.tag = "raise" THEN Raise("ParseError")
        ELSE Message_init(message.value))

\* the property id: `if not id_: raise IDInvalidError`
RequestMessage_id(_message) ==
    IF "id" \notin DOMAIN _message \/ ~Truthy(_message.id)
    THEN Raise("IDInvalidError")
    ELSE Return(_message.id)

\* the property method: `if not method_: raise MethodInvalidError`
RequestMessage_method(_message) ==
    IF "method" \notin DOMAIN _message \/ ~Truthy(_message.method)
    THEN Raise("MethodInvalidError")
    ELSE Return(_message.method)

RequestMessage_params(_message) ==
    IF "params" \in DOMAIN _message THEN _message.params ELSE None

\* ResponseMessage().create(msg_id, results, error); process returns
\* str(resp_msg), the json.dumps of this dict
ResponseMessage_create(msg_id, results, error) ==
    [jsonrpc |-> JStr("2.0"), id |-> msg_id, results |-> results, error |-> error]

\* rpc.ResponseError(code).error
ResponseError_error(code) == ErrorObject(code, "")

\* Server.capability once main() has added the services' capabilities
ServerCapability == [hoverProvider |-> JInt(1)]

\* the names main() and set_command register: the Server's own methods, a
\* feature method, and a handler of the embedding program
Command == {"exit", "ping", "initialize", "textDocument/hover", "custom"}

\* what a registered function may do: the Server's own methods return, the
\* feature methods turn every exception into InvalidParams or InternalError,
\* a handler of the embedding program may raise any exception
HandlerOutcome_of(method) ==
    IF method = "textDocument/hover" THEN {"ok", "InvalidParams", "InternalError"}
    ELSE IF method = "custom"
    THEN {"ok", "InvalidParams", "InternalError", "ValueError"}
    ELSE {"ok"}

Processed(out, wait_next) == [out |-> out, wait_next |-> wait_next]

\* run_command(method, params): command.get, MethodNotFound, func(params)
run_command(method, params, handler, wait_next) ==
    IF method.j # "str" \/ method.s \notin Command
    THEN Processed(Raise("MethodNotFound"), wait_next)
    ELSE IF handler # "ok" THEN Processed(Raise(handler), wait_next)
    ELSE CASE method.s = "exit" -> Processed(Return(None), FALSE)
           [] method.s = "ping" -> Processed(Return(params), wait_next)
           [] method.s = "initialize" -> Processed(Return(ServerCapability), wait_next)
           [] method.s = "textDocument/hover" ->
                 Processed(Return(FeatureResult), wait_next)
           [] OTHER -> Processed(Return(None), wait_next)

\* the except clauses of process, in order; any other exception leaves process
ProcessExcept(pid, exc, wait_next) ==
    LET code == CASE exc = "ParseError" -> ET_PARSE_ERROR
                  [] exc = "IDInvalidError" -> ET_INVALID_REQUEST
                  [] exc = "MethodInvalidError" -> ET_INVALID_REQUEST
                  [] exc = "MethodNotFound" -> ET_METHOD_NOT_FOUND
                  [] exc = "InvalidParams" -> ET_INVALID_PARAMS
                  [] exc = "InternalError" -> ET_INTERNAL_ERROR
                  [] OTHER -> 0
    IN IF code = 0 THEN Processed(Raise(exc), wait_next)
       ELSE Processed(Return(ResponseMessage_create(
                                 pid, None, ResponseError_error(code))),
                      wait_next)

\* Server.process(data) where the registered function does `handler`
Server_process(data, handler, wait_next) ==
    Bind(RequestMessage_parse(data), LAMBDA req_msg :
        IF req_msg.tag = "raise" THEN ProcessExcept(JInt(-1), req_msg.exc, wait_next)
        ELSE Bind(RequestMessage_id(req_msg.value), LAMBDA pid :
            IF pid.tag = "raise" THEN ProcessExcept(JInt(-1), pid.exc, wait_next)
            ELSE Bind(RequestMessage_method(req_msg.value), LAMBDA method :
                IF method.tag = "raise"
                THEN ProcessExcept(pid.value, method.exc, wait_next)
                ELSE Bind(run_command(method.value,
                                      RequestMessage_params(req_msg.value),
                                      handler, wait_next),
                          LAMBDA done :
                    IF done.out.tag = "raise"
                    THEN ProcessExcept(pid.value, done.out.exc, done.wait_next)
                    ELSE Processed(Return(ResponseMessage_create(
                                              pid.value, done.out.value,
                                              ResponseError_error(0))),
                                   done.wait_next)))))

\* the content listen hands to process: "" after ContentInvalid or
\* ContentOverflow, a text that is no JSON, JSON that is no object, and
\* objects with and without id, method and params
IdMember == {"id:0", "id:1", "id:2", "id:a", "id:", "id:null"}

ProcessMethodMember ==
    {"method:", "method:ping", "method:exit", "method:initialize",
     "method:nosuch", "method:custom", "method:textDocument/hover"}

Opt(members) == {<<>>} \cup {<<m>> : m \in members}

ProcessData ==
    {<<"{">> \o id \o method \o params \o <<"}">> :
        id \in Opt(IdMember), method \in Opt(ProcessMethodMember),
        params \in Opt({"params:{}", "params:1"})}
    \cup {<<>>, <<"x">>, <<"0">>, <<"null">>}

\* the method a content names, "" when it names none
ProcessMethod(data) ==
    Bind(RequestMessage_parse(data), LAMBDA req_msg :
        IF req_msg.tag = "raise" THEN ""
        ELSE Bind(RequestMessage_method(req_msg.value), LAMBDA method :
            IF method.tag = "raise" THEN "" ELSE method.value.s))

ProcessInit ==
    /\ qData = <<>>
    /\ qHandler = "ok"
    /\ qOut = NoResult
    /\ qWaitNext = TRUE
    /\ qLoop = "running"

\* one listen() of loop(): a content is received, process(content) is
\* called and its result sent; an exception leaves listen, loop and main
Listen ==
    /\ qLoop = "running"
    /\ \E data \in ProcessData :
       \E handler \in HandlerOutcome_of(ProcessMethod(data)) :
       \E done \in {Server_process(data, handler, qWaitNext)} :
          /\ qData' = data
          /\ qHandler' = handler
          /\ qOut' = done.out
          /\ qWaitNext' = done.wait_next
          /\ qLoop' = IF done.out.tag = "raise" THEN "crashed"
                      ELSE IF done.wait_next THEN "running" ELSE "ended"
    /\ UNCHANGED otherThanProcess

\* main() is started again after loop() ended
ServerMain ==
    /\ qLoop \in {"ended", "crashed"}
    /\ qData' = <<>>
    /\ qHandler' = "ok"
    /\ qOut' = NoResult
    /\ qWaitNext' = TRUE
    /\ qLoop' = "running"
    /\ UNCHANGED otherThanProcess

ProcessNext == Listen \/ ServerMain

-----------------------------------------------------------------------------
(* src/editing_tools/client/service_v2.py: Client, called by the worker
   threads of src/editing.py (completion_thread, hover_thread, the exit
   thread) *)

NumWorkers == 2         \* worker threads calling into CLIENT_HUB
MaxServerThreads == 3   \* server threads created in one run

Worker == 1..NumWorkers
ServerThread == 1..MaxServerThreads
Workspace == {"/w", "/v"}

\* Thread.is_alive(): started and target not returned
Alive(i) == vSpawn[i] \in {"started", "running", "serving"}

\* Client.ready()
Client_ready(capability, server_valid) ==
    capability # "None" /\ server_valid = "True"

\* _init_server: server_valid None becomes True, anything else stays
_init_server(server_valid) ==
    IF server_valid = "None" THEN "True" ELSE server_valid

\* Client._request: the response, ServerOffline on ConnectionError,
\* InternalError on any other exception (a reply that does not decode)
RequestOutcome(server) ==
    IF server = "up" THEN {"answer", "InternalError"} ELSE {"ServerOffline"}

HubInit ==
    /\ vServer = "down"
    /\ vCapability = "None"
    /\ vValid = "None"
    /\ vCached = "None"
    /\ vDelivered = {}
    /\ vServerThread = 0
    /\ vSpawn = [i \in ServerThread |-> "unborn"]
    /\ vpc = [w \in Worker |-> "idle"]

\* Client.initialize() whose request ends as outcome: capability is set from
\* the answer, ServerOffline leads into _start_server_thread, any other
\* exception is logged
HubInitializeWith(w, outcome) ==
    /\ vpc[w] = "idle"
    /\ outcome \in RequestOutcome(vServer)
    /\ vValid' = _init_server(vValid)
    /\ vCapability' = IF outcome = "answer" THEN "caps" ELSE vCapability
    /\ vpc' = [vpc EXCEPT ![w] = IF outcome = "ServerOffline" THEN "start" ELSE "idle"]
    /\ UNCHANGED <<vServer, vCached, vDelivered, vServerThread, vSpawn>>
    /\ UNCHANGED otherThanHub

HubInitialize(w) ==
    \E outcome \in {"answer", "InternalError", "ServerOffline"} :
        HubInitializeWith(w, outcome)

\* Client.complete / hover / formatting: NotInitialized without a capability;
\* ServerOffline leads into _start_server_thread
HubFeature(w) ==
    /\ vpc[w] = "idle"
    /\ vCapability # "None"
    /\ \E outcome \in RequestOutcome(vServer) :
          vpc' = [vpc EXCEPT ![w] = IF outcome = "ServerOffline" THEN "start" ELSE "idle"]
    /\ UNCHANGED <<vServer, vCapability, vValid, vCached, vDelivered,
                   vServerThread, vSpawn>>
    /\ UNCHANGED otherThanHub

\* Client.set_workspace_config(path), which fetch_completions and fetch_help
\* call when ready(): the cache is written before the request is made, and
\* ServerOffline or InternalError leaves the method through _request
HubSetWorkspace(w, path) ==
    /\ vpc[w] = "idle"
    /\ Client_ready(vCapability, vValid)
    /\ vCached # path
    /\ vCached' = path
    /\ \E outcome \in RequestOutcome(vServer) :
          vDelivered' \in
              (IF outcome = "answer" THEN {vDelivered \cup {path}}
               ELSE IF outcome = "InternalError"
               THEN {vDelivered, vDelivered \cup {path}}
               ELSE {vDelivered})
    /\ UNCHANGED <<vServer, vCapability, vValid, vServerThread, vSpawn, vpc>>
    /\ UNCHANGED otherThanHub

\* Client.exit(): the request raises when the server is offline; on the
\* answer with error code 0 capability and server_valid become None.  The
\* server leaves its loop, and run_server of the thread that started it
\* returns with return code 0.
HubExit(w) ==
    /\ vpc[w] = "idle"
    /\ vServer = "up"
    /\ vCapability' = "None"
    /\ vValid' = "None"
    /\ vServer' = "down"
    /\ vSpawn' = [i \in ServerThread |->
                    IF vSpawn[i] = "serving" THEN "dead" ELSE vSpawn[i]]
    /\ UNCHANGED <<vCached, vDelivered, vServerThread, vpc>>
    /\ UNCHANGED otherThanHub

\* _start_server_thread, the tests: server_thread is None, or it is not alive
StartServerTest(w) ==
    /\ vpc[w] = "start"
    /\ vpc' = [vpc EXCEPT ![w] =
                  IF vServerThread = 0 \/ ~Alive(vServerThread)
                  THEN "make" ELSE "idle"]
    /\ UNCHANGED <<vServer, vCapability, vValid, vCached, vDelivered,
                   vServerThread, vSpawn>>
    /\ UNCHANGED otherThanHub

\* _start_server_thread, the branch taken: self.server_thread =
\* make_thread(); self.server_thread.start()
StartServerMake(w) ==
    /\ vpc[w] = "make"
    /\ \E i \in ServerThread :
          /\ vSpawn[i] = "unborn"
          /\ \A j \in ServerThread : vSpawn[j] = "unborn" => i <= j
          /\ vServerThread' = i
          /\ vSpawn' = [vSpawn EXCEPT ![i] = "started"]
    /\ vpc' = [vpc EXCEPT ![w] = "idle"]
    /\ UNCHANGED <<vServer, vCapability, vValid, vCached, vDelivered>>
    /\ UNCHANGED otherThanHub

\* _server_thread: `if self.server_valid:` then run_server starts the process
ServerThreadRun(i) ==
    /\ vSpawn[i] = "started"
    /\ vSpawn' = [vSpawn EXCEPT ![i] = IF vValid = "True" THEN "running" ELSE "dead"]
    /\ UNCHANGED <<vServer, vCapability, vValid, vCached, vDelivered,
                   vServerThread, vpc>>
    /\ UNCHANGED otherThanHub

\* run_server: the server binds the port and serves while communicate()
\* waits; or Popen raises OSError, which run_server swallows; or the process
\* ends with a return code other than 0, ServerError, server_valid = False
RunServer(i) ==
    /\ vSpawn[i] = "running"
    /\ \/ /\ vServer = "down"
          /\ vServer' = "up"
          /\ vSpawn' = [vSpawn EXCEPT ![i] = "serving"]
          /\ UNCHANGED vValid
       \/ /\ vSpawn' = [vSpawn EXCEPT ![i] = "dead"]
          /\ UNCHANGED <<vServer, vValid>>
       \/ /\ vSpawn' = [vSpawn EXCEPT ![i] = "dead"]
          /\ vValid' = "False"
          /\ UNCHANGED vServer
    /\ UNCHANGED <<vCapability, vCached, vDelivered, vServerThread, vpc>>
    /\ UNCHANGED otherThanHub

\* the server process started by a thread dies: communicate() returns a
\* return code other than 0
ServerDies(i) ==
    /\ vSpawn[i] = "serving"
    /\ vServer' = "down"
    /\ vSpawn' = [vSpawn EXCEPT ![i] = "dead"]
    /\ vValid' = "False"
    /\ UNCHANGED <<vCapability, vCached, vDelivered, vServerThread, vpc>>
    /\ UNCHANGED otherThanHub

\* a server started outside the client (python server.py in a terminal)
\* binds the free port, or stops
OutsideServer ==
    /\ \A i \in ServerThread : vSpawn[i] # "serving"
    /\ vServer' = IF vServer = "down" THEN "up" ELSE "down"
    /\ UNCHANGED <<vCapability, vValid, vCached, vDelivered, vServerThread,
                   vSpawn, vpc>>
    /\ UNCHANGED otherThanHub

HubNext ==
    \/ \E w \in Worker : HubInitialize(w)
    \/ \E w \in Worker : HubFeature(w)
    \/ \E w \in Worker : \E path \in Workspace : HubSetWorkspace(w, path)
    \/ \E w \in Worker : HubExit(w)
    \/ \E w \in Worker : StartServerTest(w)
    \/ \E w \in Worker : StartServerMake(w)
    \/ \E i \in ServerThread : ServerThreadRun(i)
    \/ \E i \in ServerThread : RunServer(i)
    \/ \E i \in ServerThread : ServerDies(i)
    \/ OutsideServer

-----------------------------------------------------------------------------
(* The codec under test: every str, and every frame of a declared length *)

CodecIdle ==
    /\ cIn = <<>>
    /\ cN = 0
    /\ cWire = <<>>
    /\ cOut = NoResult
    /\ cStep = "off"

CodecInit ==
    /\ cIn \in StrUpTo(MaxStrLen)
    /\ cN \in 0..MaxDeclared
    /\ cWire = <<>>
    /\ cOut = NoResult
    /\ cStep = "start"

CodecEncode ==
    /\ cStep = "start"
    /\ cWire' = encode(cIn)
    /\ cStep' = "encoded"
    /\ UNCHANGED <<cIn, cN, cOut>>
    /\ UNCHANGED otherThanCodec

CodecFrame ==
    /\ cStep = "start"
    /\ cWire' = Frame(cN, cIn)
    /\ cStep' = "framed"
    /\ UNCHANGED <<cIn, cN, cOut>>
    /\ UNCHANGED otherThanCodec

CodecDecode ==
    /\ cStep \in {"encoded", "framed"}
    /\ cOut' = decode(cWire)
    /\ cStep' = IF cStep = "encoded" THEN "roundtrip" ELSE "decoded"
    /\ UNCHANGED <<cIn, cN, cWire>>
    /\ UNCHANGED otherThanCodec

\* TransportMessage(cIn).to_bytes()
CodecToBytes ==
    /\ cStep = "start"
    /\ cWire' = TransportMessage_to_bytes(cIn)
    /\ cStep' = "to_bytes"
    /\ UNCHANGED <<cIn, cN, cOut>>
    /\ UNCHANGED otherThanCodec

\* TransportMessage.from_bytes of what to_bytes gave, or of a frame that
\* declares cN
CodecFromBytes ==
    /\ cStep \in {"to_bytes", "framed"}
    /\ cOut' = TransportMessage_from_bytes(cWire)
    /\ cStep' = IF cStep = "to_bytes" THEN "from_to_bytes" ELSE "from_bytes"
    /\ UNCHANGED <<cIn, cN, cWire>>
    /\ UNCHANGED otherThanCodec

\* a peer writes a frame with a second Content-Length line of another value
CodecDuplicate ==
    /\ cStep = "start"
    /\ \E m \in (0..MaxDeclared) \ {cN} : cWire' = DupFrame(cN, m, cIn)
    /\ cStep' = "duplicated"
    /\ UNCHANGED <<cIn, cN, cOut>>
    /\ UNCHANGED otherThanCodec

\* TransportMessage.from_bytes of that frame
CodecFromDuplicate ==
    /\ cStep = "duplicated"
    /\ cOut' = TransportMessage_from_bytes(cWire)
    /\ cStep' = "from_duplicate"
    /\ UNCHANGED <<cIn, cN, cWire>>
    /\ UNCHANGED otherThanCodec

\* RPCMessage.get_content_length of the header of that frame
CodecHeaderOfDuplicate ==
    /\ cStep = "duplicated"
    /\ cOut' = get_content_length(Split(cWire, Separator)[1])
    /\ cStep' = "header_of_duplicate"
    /\ UNCHANGED <<cIn, cN, cWire>>
    /\ UNCHANGED otherThanCodec

CodecNext ==
    \/ CodecEncode
    \/ CodecFrame
    \/ CodecDecode
    \/ CodecToBytes
    \/ CodecFromBytes
    \/ CodecDuplicate
    \/ CodecFromDuplicate
    \/ CodecHeaderOfDuplicate

-----------------------------------------------------------------------------
(* Specifications *)

\* one value handed to the codec, the client transport and the server idle
InitCodec == CodecInit /\ ClientInit /\ ServerInit /\ DispatchInit /\ MessageInit /\ GateInit /\ SpawnInit /\ PluginInit /\ ParseInit /\ LongInit /\ ProcessInit /\ HubInit

\* nothing called yet: no request() running, the server waiting in accept
Init == CodecIdle /\ ClientInit /\ ServerInit /\ DispatchInit /\ MessageInit /\ GateInit /\ SpawnInit /\ PluginInit /\ ParseInit /\ LongInit /\ ProcessInit /\ HubInit

SpecCodec == InitCodec /\ [][CodecNext]_vars

SpecClient == Init /\ [][ClientNext]_vars

SpecServer == Init /\ [][ServerNext]_vars

\* request_handler runs on the server's only thread, which is never starved;
\* a client that waits for a reply gives up in the end
SpecDispatch == Init /\ [][DispatchNext]_vars

SpecMessage == Init /\ [][MessageNext]_vars

SpecGate == Init /\ [][GateNext]_vars

SpecSpawn == Init /\ [][SpawnNext]_vars

FairSpecServer == SpecServer /\ WF_vars(ServerStep) /\ WF_vars(ClientGivesUp)

\* request() runs on its own thread and is never starved of the processor
FairSpecClient == SpecClient /\ WF_vars(ClientNext)

SpecPlugin == Init /\ [][PluginNext]_vars

SpecParse == Init /\ [][ParseNext]_vars

SpecLong == Init /\ [][LongNext]_vars
SpecProcess == Init /\ [][ProcessNext]_vars
SpecHub == Init /\ [][HubNext]_vars

-----------------------------------------------------------------------------
(* C1: decode(encode(s)) returns s for every str s, the empty one, non-ASCII
   text and text holding CR LF CR LF included. *)
C1_RoundTrip == cStep = "roundtrip" => cOut = Return(cIn)

(* C2: a frame whose well-formed header declares N and whose body has length
   L decodes to ContentIncomplete when L < N, to ContentOverflow when L > N
   and to the body itself when L = N. *)
C2_LengthTrichotomy ==
    cStep = "decoded" =>
        /\ Len(cIn) < cN => cOut = Raise("ContentIncomplete")
        /\ Len(cIn) > cN => cOut = Raise("ContentOverflow")
        /\ Len(cIn) = cN => cOut = Return(cIn)

(* C3: however the response frame is split into recv chunks, request()
   returns the message it returns when the frame arrives in one chunk. *)
C3_IncrementalRead ==
    (/\ tpc = "done"
     /\ tPeer \in {"close", "silent", "reset"}
     /\ RPCMessage_from_bytes(tFrame).tag = "return")
    => tOut = RPCMessage_from_bytes(tFrame)

(* C4: every call of request() eventually returns to its caller, whatever the
   peer does once the connection is established. *)
C4_RequestReturns == (tpc = "recv") ~> (tpc = "done")

(* C5: when a receive times out before a response is decoded, request()
   returns {error: {code: 5000, message: ...}} and raises nothing. *)
C5_TimeoutResponse ==
    (tpc = "done" /\ tExit = "timeout") =>
        tOut = Return([error |-> ErrorObject(RequestTimeout, "request timedout")])

(* C6: on every exit path of request() the client socket is closed before
   control returns, so no client connection stays open between calls. *)
C6_SocketClosed == tpc \in {"idle", "done"} => tSock = 0

C6_Witness == tpc = "done" /\ tExit = "timeout" /\ tSock = 0

(* C7: a connection whose bytes form a fatally invalid frame gets an error
   response with the InputError code before it is dropped. *)
FatallyInvalid(frame) ==
    Bind(TransportMessage_from_bytes(frame), LAMBDA tmsg :
        tmsg.tag = "raise" /\ tmsg # Raise("ContentIncomplete"))

InputErrorResponse ==
    { TransportMessage_to_bytes(<<"{", member, "}">>) :
        member \in {"error:5002:json", "error:5002:key"} }

C7_InvalidFrameAnswered ==
    (spc = "accept" /\ sEnded # "none" /\ sPeer # "reset" /\ FatallyInvalid(sFrame))
    => sSent \in InputErrorResponse

(* C8: whatever the client sends and whenever it closes, the server finishes
   with the connection and is ready to accept the next one. *)
C8_ConnectionEnds == (spc = "recv") ~> (spc \in {"accept", "exited"})

(* C9: the response to a shutdown request is the empty result, it is sent
   before the process ends, the process ends with exit code 0, and once that
   response is sent no further connection is accepted. *)
EmptyResultResponse ==
    TransportMessage_to_bytes(json_dumps(ResponseParams(None, None)))

C10_ExitTerminates ==
    sAnswered = "exit" => (sTerminate /\ spc \in {"finish", "exited"})

(* C10 amended: an exit request is answered with the empty result and clears
   the project settings, but does not set _terminate: the process ends only
   once a shutdown request has been handled, and after an exit reply without
   one the server goes on to accept the next connection. *)
C10_ExitKeepsServing ==
    /\ sTerminate = sShutdownHandled
    /\ sAnswered = "exit" =>
        /\ sSent = EmptyResultResponse
        /\ sSettings = EmptyDict
        /\ ~sShutdownHandled => spc \in {"finish", "accept"}
    /\ spc = "exited" => sShutdownHandled

C10_Witness ==
    /\ spc = "accept"
    /\ sAnswered = "exit"
    /\ sEnded = "replied"
    /\ sExitCode = Running

-----------------------------------------------------------------------------
(* Claims about the dispatcher *)

\* the request the last handle_message call was given, once loaded
Request == json_loads(dMessage).value

\* the code of the error response a call handed back; 0 for a result, -1
\* when the call raised or has not happened
ErrorCode(out) ==
    IF out.tag # "return" THEN -1
    ELSE Bind(json_loads(out.value).value, LAMBDA response :
            IF "error" \in DOMAIN response THEN response.error.code ELSE 0)

\* the fields the spec's method table lists for a feature request
Listed(method) ==
    CASE method \in {"document_completion", "document_hover"} ->
            {"source", "row", "column"}
      [] method = "document_formatting" -> {"source"}
      [] method = "document_publish_diagnostic" -> {"source", "path"}

\* the fields a feature handler cannot do without
Required(method) ==
    IF method = "document_publish_diagnostic" THEN {"path"} ELSE Listed(method)

(* C11: a feature request yields the NotInitialized error exactly when no
   initialize was handled since the start or the last exit, whatever its
   params are. *)
C11_NotInitializedIff ==
    DispatchedMethod(dMessage) \in Feature =>
        (ErrorCode(dOut) = NOT_INITIALIZED <=> ~dWasInitialized)

C11_Witness ==
    /\ DispatchedMethod(dMessage) \in Feature
    /\ ~dWasInitialized
    /\ ~IsMapping(Request.params)
    /\ ErrorCode(dOut) = NOT_INITIALIZED

(* C12: a request whose method is a string outside the handler table gets
   the MethodError response, and handle_message raises nothing. *)
C12_MethodError ==
    (/\ dOut # NoResult
     /\ json_loads(dMessage).tag = "return"
     /\ IsMapping(Request)
     /\ {"method", "params"} \subseteq DOMAIN Request
     /\ Request.method.s \notin service_map)
    => dOut = Return(<<"{", "error:5004", "}">>)

C12_Witness ==
    /\ dMessage = RequestBody("method:document_rename", "params:document")
    /\ dOut = Return(<<"{", "error:5004", "}">>)

\* what the handler of the last dispatched request did
HandlerOutcome ==
    Service(DispatchedMethod(dMessage), Request.params, dTerminate, dBefore, dSvc).out

(* C13: when a registered handler raises anything but ParamError and
   InitializeError, handle_message returns the InternalError response that
   carries the exception's text, and raises nothing. *)
C13_InternalError ==
    (/\ DispatchedMethod(dMessage) # ""
     /\ HandlerOutcome.tag = "raise"
     /\ HandlerOutcome.exc \notin {"ParamError", "InitializeError"})
    => (/\ dOut.tag = "return"
        /\ json_loads(dOut.value).value =
              [error |-> ErrorObject(5001, HandlerOutcome.exc)])

C13_Witness ==
    /\ DispatchedMethod(dMessage) = "change_workspace"
    /\ HandlerOutcome = Raise("KeyError")
    /\ dOut = Return(<<"{", "error:5001:KeyError", "}">>)

(* C14: a ping request with params p gets the success response whose result
   is p. *)
C14_PingEchoes ==
    DispatchedMethod(dMessage) = "ping" =>
        (/\ dOut.tag = "return"
         /\ json_loads(dOut.value).value = [result |-> Request.params])

(* C15 as stated: on an initialized server a feature request whose params
   are no mapping or lack a field listed for the method gets the ParamError
   response. *)
C15_ListedFieldMissing ==
    (/\ DispatchedMethod(dMessage) \in Feature
     /\ dWasInitialized
     /\ \/ ~IsMapping(Request.params)
        \/ ~(Listed(DispatchedMethod(dMessage)) \subseteq DOMAIN Request.params))
    => ErrorCode(dOut) = PARAM_ERROR

(* C15 amended: the ParamError response is given when the params are no
   mapping or lack a field the handler cannot do without: source, row, column
   for completion and hover, source for formatting, and only path for
   document_publish_diagnostic, whose source is optional. *)
C15_ParamError ==
    /\ (/\ DispatchedMethod(dMessage) \in Feature
        /\ dWasInitialized
        /\ \/ ~IsMapping(Request.params)
           \/ ~(Required(DispatchedMethod(dMessage)) \subseteq DOMAIN Request.params))
       => ErrorCode(dOut) = PARAM_ERROR
    /\ (/\ DispatchedMethod(dMessage) = "document_publish_diagnostic"
        /\ dWasInitialized
        /\ IsMapping(Request.params)
        /\ "path" \in DOMAIN Request.params)
       => ErrorCode(dOut) # PARAM_ERROR

C15_Witness ==
    /\ dMessage = RequestBody("method:document_completion", "params:source")
    /\ dWasInitialized
    /\ dOut = Return(<<"{", "error:5005", "}">>)

(* C16: a complete frame whose body is no JSON, is JSON but no object, or is
   an object lacking method or params is answered with the InputError
   response. *)
MalformedBody(text) ==
    Bind(json_loads(text), LAMBDA loaded :
        \/ loaded.tag = "raise"
        \/ ~IsMapping(loaded.value)
        \/ ~({"method", "params"} \subseteq DOMAIN loaded.value))

C16_MalformedBodyAnswered ==
    (/\ spc = "finish"
     /\ TransportMessage_from_bytes(sFrame).tag = "return"
     /\ MalformedBody(TransportMessage_from_bytes(sFrame).value))
    => sSent \in InputErrorResponse

(* C17: a response object built by ResponseParams or RPCMessage.response
   holds exactly one of the keys result and error, whatever the arguments. *)
C17_ExactlyOneKey ==
    mBy # "" =>
        /\ DOMAIN mBuilt \subseteq {"result", "error"}
        /\ ("result" \in DOMAIN mBuilt) # ("error" \in DOMAIN mBuilt)

C17_Witness ==
    /\ mBy = "ResponseParams"
    /\ mResult = JInt(1)
    /\ mError = ErrorObject(INTERNAL_ERROR, "Exception")
    /\ DOMAIN mBuilt = {"error"}

(* C18: at most one operation body wrapped by pipe executes at any time. *)
C18_MutualExclusion ==
    /\ Cardinality({t \in Thread : gpc[t] = "body"}) <= 1
    /\ \A t \in Thread : gpc[t] = "body" => gLock = t

C18_Witness ==
    \E t, u \in Thread : t # u /\ gpc[t] = "body" /\ gpc[u] = "acquire"

(* C19: an operation invoked while another one is in flight is dropped: it
   returns None, never waits for the lock and never runs its body. *)
C19_DroppedNotQueued ==
    \A t \in Thread :
        gOverlap[t] =>
            /\ gpc[t] \notin {"acquire", "body"}
            /\ gpc[t] = "idle" => gRet[t] = "None"

(* C20: of the server processes spawned, at most one holds the port and
   serves; a process that finds the port bound exits with code 123 without
   serving, and its spawner gets AddressInUse. *)
C20_SpawnCoordination ==
    /\ Cardinality({i \in Spawn : pProc[i] = "serving"}) <= 1
    /\ \A i \in Spawn : pProc[i] = "serving" => pPort = i
    /\ \A i \in Spawn :
        pFoundBound[i] =>
            /\ pStatus[i] = <<EXIT_OS_ERROR>>
            /\ ~pServed[i]
            /\ pSpawner[i] = "done" => pSeen[i] = "AddressInUse"


\* C21: run_server fails whenever the spawned process has exited by the end
\* of the grace window: AddressInUse when the exit code is 123 and OSError
\* for every other exit code; it returns normally only if the process is
\* still running
C21_ExitedMeansFailure ==
    \A i \in Spawn :
        pSpawner[i] = "done" =>
            /\ pSeen[i] = "returned" <=> pExitCode[i] = Running
            /\ pExitCode[i] = <<EXIT_ADDRESS_IN_USE>> => pSeen[i] = "AddressInUse"
            /\ (pExitCode[i] # Running /\ pExitCode[i] # <<EXIT_ADDRESS_IN_USE>>)
                   => pSeen[i] = "OSError"


\* the caller of initialize got a response of the server that carries no
\* error: neither an exception, nor the response request() makes up on a
\* timeout, nor an error response
SuccessfulInitialize(out) ==
    /\ out.tag = "return"
    /\ out.value # TimeoutResponse
    /\ "error" \notin DOMAIN out.value

\* C22: Session.active is true only if the most recent Session.start got a
\* successful (non-error) response to initialize from the server; a start
\* whose initialize ended in the timeout response, an error response or an
\* exception leaves active false
C22_ActiveMeansInitialized == uActive => SuccessfulInitialize(uStartOut)

\* C23: a feature handler that reads the NotInitialized code in the response
\* calls SESSION.start and then sends its request a second time before it
\* returns
C23_RetriesAfterInitialize ==
    (upc = "done" /\ uNotInit) => (uStarts >= 1 /\ uSent >= 2)

\* C28 as stated: client.shutdown() itself returns normally when the server
\* is unreachable or the call fails
C28_ShutdownSwallows ==
    (upc = "done" /\ uHandler = "shutdown") => uShutdown = Return(None)

\* C28: an exception of client.shutdown() (server unreachable, call failed)
\* reaches its caller, PytoolsShutdownServerCommand.shutdown, which swallows
\* it: the command returns normally
C28_CommandSwallows ==
    (upc = "done" /\ uHandler = "shutdown") =>
        /\ uCommand = Return(None)
        /\ uShutdown \in {Return(None), Raise("ConnectionRefusedError"),
                          Raise("ConnectionResetError")}

C28_Witness ==
    /\ upc = "done"
    /\ uHandler = "shutdown"
    /\ uShutdown = Raise("ConnectionRefusedError")
    /\ uCommand = Return(None)


\* the reply, taken whole, fails to decode for a reason other than being
\* incomplete: no separator, no Content-Length, a body longer than declared,
\* a body that is no JSON object
FramingFailure(frame) ==
    /\ RPCMessage_from_bytes(frame).tag = "raise"
    /\ RPCMessage_from_bytes(frame) # Raise("ContentIncomplete")

\* C24: a framing failure of the server's reply other than incompleteness
\* reaches the caller of request() as an error response with the InputError
\* code, not as a raised exception; ContentIncomplete never reaches the
\* caller
C24_FramingFailureIsInputError ==
    /\ (tpc = "done" /\ tFrame # <<>> /\ tBuffer = tFrame /\ FramingFailure(tFrame)) =>
            /\ tOut.tag = "return"
            /\ "error" \in DOMAIN tOut.value
            /\ tOut.value.error.code = INPUT_ERROR
    /\ tOut # Raise("ContentIncomplete")


\* C25: TransportMessage.from_bytes returns a message only when the body
\* length equals the declared Content-Length; when the body is longer than
\* declared it raises the overflow error instead of returning the body
C25_OverflowRaised ==
    cStep = "from_bytes" =>
        /\ cOut.tag = "return" => Len(Utf8Encode(cIn)) = cN
        /\ (/\ cN > 0
            /\ Len(Utf8Encode(cIn)) > cN
            /\ Len(Split(Utf8Encode(cIn), Separator)) = 1)
           => cOut = Raise("ContentOverlow")

\* C26: for every str s, the empty one included,
\* TransportMessage.from_bytes(TransportMessage(s).to_bytes()).message == s
C26_TransportRoundTrip == cStep = "from_to_bytes" => cOut = Return(cIn)

\* C27: the Content-Length that rpc.encode writes is the number of bytes of
\* the UTF-8 encoded body that follows the separator
C27_HeaderCountsBytes ==
    cStep = "encoded" =>
        cWire = ContentLengthKey \o IntToStr(Len(Utf8Encode(cIn))) \o Separator
                \o Utf8Encode(cIn)


\* the error codes of src/server/app.py
ServerErrorCode ==
    {INTERNAL_ERROR, INPUT_ERROR, METHOD_ERROR, PARAM_ERROR, NOT_INITIALIZED}

\* the response object in the frame the server sent
SentResponse == json_loads(TransportMessage_from_bytes(sSent).value).value

\* C29: every error response the server sends carries a code of
\* {5001, 5002, 5004, 5005, 5006}; the RequestTimeout code 5000 is never in
\* a response of the server
C29_ServerErrorCodes ==
    sSent # <<>> =>
        /\ TransportMessage_from_bytes(sSent).tag = "return"
        /\ json_loads(TransportMessage_from_bytes(sSent).value).tag = "return"
        /\ "error" \in DOMAIN SentResponse =>
                /\ SentResponse.error.code \in ServerErrorCode
                /\ SentResponse.error.code # RequestTimeout

C29_Witness ==
    /\ sSent # <<>>
    /\ "error" \in DOMAIN SentResponse
    /\ SentResponse.error.code = PARAM_ERROR


\* the fields of an error mapping besides code and message
ExtraFields(e) == (DOMAIN e) \ {"code", "message"}

\* C30: for every error mapping e with code, message and any extra fields,
\* ResponseError.parse(e) yields an object whose code and message are those
\* of e and whose .error mapping carries every extra field of e at top
\* level under its own key
C30_ParseKeepsFields ==
    (/\ eStep = "parsed"
     /\ IsMapping(eIn)
     /\ {"code", "message"} \subseteq DOMAIN eIn)
    => /\ eOut.tag = "return"
       /\ eOut.value.code = eIn.code
       /\ eOut.value.message = eIn.message
       /\ \A k \in ExtraFields(eIn) :
            k \in DOMAIN eOut.value /\ eOut.value[k] = eIn[k]


\* C31: request_handler dispatches and replies as soon as a complete frame
\* is accumulated, whatever the size of the last chunk: it never waits in
\* recv, the whole frame in its buffer, for a client that waits for the reply
C31_NoWaitOnCompleteFrame ==
    ~(/\ lpc = "recv"
      /\ lBuffer = FrameLen(lFrame)
      /\ lWire = 0
      /\ lClient = "waiting")


(* C32: a change_workspace request whose path names an existing directory
   gets the success response with the empty result in every server state:
   before any initialize, and when the path is the current workspace. *)
C32_ChangeWorkspaceSucceeds ==
    (/\ DispatchedMethod(dMessage) = "change_workspace"
     /\ IsMapping(Request.params)
     /\ "path" \in DOMAIN Request.params
     /\ Request.params.path \in Directory)
    => dOut = Return(<<"{", "result:null", "}">>)


(* C33: of a header with two Content-Length lines of different values,
   TransportMessage.from_bytes decodes the frame as it decodes the frame that
   has the first line only, and RPCMessage.get_content_length returns the
   value of the first line. *)
C33_FirstContentLength ==
    /\ cStep = "from_duplicate" =>
          cOut = TransportMessage_from_bytes(Frame(cN, cIn))
    /\ cStep = "header_of_duplicate" => cOut = Return(cN)

\* the first line declares the body's length, the second another: decoded
C33_Witness ==
    /\ cStep = "from_duplicate"
    /\ cIn = <<"a", "a">>
    /\ cWire = DupFrame(2, 5, cIn)
    /\ cOut = Return(cIn)


\* the request the last content carried, once parsed
ProcessRequest == RequestMessage_parse(qData)

\* a response as process builds it: the four members, an id, an error object
WellFormedResponse(resp) ==
    /\ DOMAIN resp = {"jsonrpc", "id", "results", "error"}
    /\ DOMAIN resp.error = {"code", "message"}

(* C34: Server.process returns a well-formed response for every content and
   every registered handler; when the handler raises an exception outside
   the classes process names, the response is the InternalError response
   (-32603) and nothing propagates into listen and loop. *)
C34_ProcessAlwaysResponds ==
    qData # <<>> \/ qOut # NoResult =>
        /\ qOut.tag = "return"
        /\ WellFormedResponse(qOut.value)
        /\ qLoop # "crashed"
        /\ qHandler = "ValueError" => qOut.value.error.code = ET_INTERNAL_ERROR

(* C38: a response to a request whose id is present, an integer or a
   string, carries that id; only a content that cannot be parsed or has no
   id is answered with id -1. *)
C38_ResponseCarriesId ==
    (/\ qOut.tag = "return"
     /\ ProcessRequest.tag = "return"
     /\ "id" \in DOMAIN ProcessRequest.value
     /\ ProcessRequest.value.id # None)
    => qOut.value.id = ProcessRequest.value.id


(* C35: whenever an invocation of the shutdown command completes,
   SESSION.active is false, also when it was invoked while another gated
   operation was in flight. *)
C35_ShutdownLeavesInactive ==
    [][\A t \in Thread :
          (gOp[t] = "shutdown" /\ gpc[t] # "idle" /\ gpc'[t] = "idle")
          => ~gActive']_vars


(* C36: cached_workspace is W only if a workspace/didChangeConfiguration
   request carrying W was delivered to the server; a send that fails leaves
   no W cached. *)
C36_CachedMeansDelivered ==
    vCached # "None" => vCached \in vDelivered

(* C37: when the server is reachable and answers initialize with its
   capability map, ready() is true once initialize() has returned, also
   after a failed server start set server_valid to False. *)
C37_ReadyAfterInitialize ==
    [][(\E w \in Worker : HubInitializeWith(w, "answer"))
       => Client_ready(vCapability', vValid')]_vars

(* C39: at most one thread started by _start_server_thread is alive at any
   time. *)
C39_OneServerThread ==
    Cardinality({i \in ServerThread : Alive(i)}) <= 1

====
